---- MODULE Spec2Model ----
(***************************************************************************)
(* Model of the drones statistics engine (src/drones/statistics.py) and of *)
(* the batch drivers that call it (src/drones/cli.py, src/drones/api.py).  *)
(* Further sections model the reports poller (src/drones/humbug_reports.py),*)
(* the cleanup of journals (src/drones/cli.py) and the migration error_tags *)
(* (src/drones/migrations/add_error_tag.py).                                *)
(*                                                                         *)
(* Time is counted in whole hours since an epoch.  A journal entry is a    *)
(* record [id, journal, created_at]; a tag row is a record                 *)
(* [entry, tag, created_at] where tag = <<category, value>> stands for the *)
(* string "category:value".                                                *)
(***************************************************************************)
EXTENDS Integers, Sequences, FiniteSets, TLC

VARIABLES
    now,        \* the clock (datetime.utcnow()), in hours
    entries,    \* table journal_entries
    tags,       \* table journal_entry_tags
    writes,     \* number of commits done by the concurrent writer
    driver,     \* the batch driver that runs, with its arguments
    pc,         \* position of the driver / generate_and_push / get_statistics
    todo,       \* units the driver's loops still have to visit
    attempted,  \* the calls of generate_and_push made so far, in order
    cur,        \* the unit generate_and_push works on
    start_date, \* generate_and_push: start_date
    loc,        \* get_statistics: local variables
    doc,        \* get_statistics: statistics_response
    seen,       \* the database snapshots the queries of this document read
    failed_at,  \* the step of get_statistics that raised, or "none"
    sink,       \* keys written to the object store
    escaped,    \* units whose exception left generate_and_push
    faults,     \* number of failures of the store, the sink and the sessions
    request,    \* the body of the POST /jobs/stats_update being served
    response,   \* the response of the endpoint
    background_tasks, \* tasks added to BackgroundTasks, not yet run
    produced,   \* data of the documents generated for units the batch repeats
    reports_queue,    \* the Redis list the reports are taken from
    failed_queue,     \* the Redis list of failed reports: pushes per report
    report_tasks,     \* process_humbug_tasks_queue: report_tasks
    journal_by_token, \* process_humbug_tasks_queue: journal_by_token
    unwritten,        \* write_reports: the tasks its loop still has to visit
    committed,        \* journal entries write_reports committed, per report
    polling,          \* the arguments of start_polling
    cleanup,          \* journal_entries_cleanup_handler: arguments and locals
    migration,        \* the migration that runs, with its journal argument
    store0            \* the tables, or the queue, as the command found them

\* State of the reports poller (humbug_reports.py)
humbug_vars == <<reports_queue, failed_queue, report_tasks, journal_by_token,
                 unwritten, committed, polling>>

\* State of the maintenance commands (cli.py cleanup, migrations)
maintenance_vars == <<cleanup, migration, store0>>

\* State of the statistics drivers, the clock and the tables apart
stats_vars == <<writes, driver, todo, attempted, cur, start_date, loc, doc, seen,
                failed_at, sink, escaped, request, response, background_tasks,
                produced>>

vars == <<now, entries, tags, writes, driver, pc, todo, attempted, cur,
          start_date, loc, doc, seen, failed_at, sink, escaped, faults,
          request, response, background_tasks, produced,
          humbug_vars, maintenance_vars>>

-----------------------------------------------------------------------------
(* Bounds of the model *)

MaxWrites == 1      \* commits of the concurrent writer per behaviour
MaxFaults == 1      \* failures of the store, the sink and the sessions per behaviour
MaxPerCount == 4    \* ranking fixtures: tags per count value

-----------------------------------------------------------------------------
(* Time *)

HoursPerDay == 24
DaysPerWeek == 7
DayLen == HoursPerDay
WeekLen == DaysPerWeek * DayLen

None == -1

TimeScales == {"year", "month", "week", "day"}
StatsTypes == {"errors", "stats", "session", "client"}

\* timescales_delta[timescale]["timedelta"], in hours
timescales_delta(timescale) ==
    CASE timescale = "year"  -> 364 * DayLen
      [] timescale = "month" -> 27 * DayLen
      [] timescale = "week"  -> 6 * DayLen
      [] timescale = "day"   -> 24

\* timescales_params[timescale]["timestep"], in hours
timestep(timescale) ==
    CASE timescale = "year"  -> DayLen
      [] timescale = "month" -> DayLen
      [] timescale = "week"  -> DayLen
      [] timescale = "day"   -> 1

\* timescales_params[timescale]["timeformat"]
timeformat(timescale) ==
    CASE timescale = "year"  -> "YYYY-MM-DD"
      [] timescale = "month" -> "YYYY-MM-DD"
      [] timescale = "week"  -> "YYYY-MM-DD"
      [] timescale = "day"   -> "YYYY-MM-DD HH24"

\* SQL to_char(timestamp, mask): the formatted text as <<date>> or <<date, hour>>
to_char(t, mask) ==
    IF mask = "YYYY-MM-DD HH24"
    THEN <<t \div HoursPerDay, t % HoursPerDay>>
    ELSE <<t \div HoursPerDay>>

\* SQL DATE(timestamp)
DATE(t) == t \div HoursPerDay

\* SQL date_trunc('week', timestamp): the first hour of the week
date_trunc_week(t) == (t \div WeekLen) * WeekLen

\* SQL generate_series(start, end, step): start, start+step, ... while <= end
generate_series(start, end, step) ==
    IF end < start THEN <<>>
    ELSE [k \in 1..((end - start) \div step + 1) |-> start + (k - 1) * step]

-----------------------------------------------------------------------------
(* Generic helpers *)

Range(s) == {s[i] : i \in DOMAIN s}

Reverse(s) == [i \in 1..Len(s) |-> s[Len(s) + 1 - i]]

Min(a, b) == IF a < b THEN a ELSE b

\* The concatenation of ss[lo], ..., ss[hi]
RECURSIVE FlattenRange(_, _, _)
FlattenRange(ss, lo, hi) ==
    IF lo > hi THEN <<>>
    ELSE IF lo = hi THEN ss[lo]
    ELSE LET mid == (lo + hi) \div 2
         IN FlattenRange(ss, lo, mid) \o FlattenRange(ss, mid + 1, hi)

Flatten(ss) == FlattenRange(ss, 1, Len(ss))

RECURSIVE SumOver(_, _)
SumOver(S, f) ==
    IF S = {} THEN 0
    ELSE LET x == CHOOSE y \in S : TRUE IN f[x] + SumOver(S \ {x}, f)

\* The elements of S in ascending order of the (injective) integer key k
RECURSIVE SortedBy(_, _)
SortedBy(S, k) ==
    IF S = {} THEN <<>>
    ELSE LET x == CHOOSE y \in S : \A z \in S : k[y] <= k[z]
         IN <<x>> \o SortedBy(S \ {x}, k)

\* Stable sort of seq in descending order of key (Python sorted(reverse=True),
\* SQL ORDER BY ... DESC over rows that arrive in the order of seq)
RECURSIVE StableSortDesc(_, _)
StableSortDesc(seq, key) ==
    IF seq = <<>> THEN <<>>
    ELSE LET i == CHOOSE j \in DOMAIN seq :
                      /\ \A m \in DOMAIN seq : key[seq[m]] <= key[seq[j]]
                      /\ \A m \in 1..(j - 1) : key[seq[m]] < key[seq[j]]
             rest == [m \in 1..(Len(seq) - 1) |-> IF m < i THEN seq[m] ELSE seq[m + 1]]
         IN <<seq[i]>> \o StableSortDesc(rest, key)

\* SQL LIMIT n / Python seq[:n]
Limit(seq, n) == SubSeq(seq, 1, Min(Len(seq), n))

-----------------------------------------------------------------------------
(* Tags and filters *)

Categories == <<"client", "error", "os", "reporter_token", "session">>

CatIdx(c) == CHOOSE i \in DOMAIN Categories : Categories[i] = c

\* Position of a tag string in the collation order of the store
TagKey(tag) == CatIdx(tag[1]) * 100 + tag[2]

\* JournalEntryTag.tag.like("<prefix>:%")
Like(prefix) == [kind |-> "like", prefix |-> prefix, labels |-> {}]
\* JournalEntryTag.tag.in_(labels)
In(labels) == [kind |-> "in", prefix |-> "", labels |-> labels]
\* filter = True
NoFilter == [kind |-> "true", prefix |-> "", labels |-> {}]

Matches(filter_condition, tag) ==
    CASE filter_condition.kind = "true" -> TRUE
      [] filter_condition.kind = "like" -> tag[1] = filter_condition.prefix
      [] filter_condition.kind = "in"   -> tag \in filter_condition.labels

\* JournalEntry.created_at > start (when given) and < end (when given)
InWindow(t, start, end) ==
    /\ (start # None => t > start)
    /\ (end # None => t < end)

\* Tag rows joined to the entries of the journal inside the window, filtered
JoinedTags(E, T, journal_id, filter_condition, start, end) ==
    {r \in T :
        /\ Matches(filter_condition, r.tag)
        /\ \E e \in E : /\ e.id = r.entry
                        /\ e.journal = journal_id
                        /\ InWindow(e.created_at, start, end)}

-----------------------------------------------------------------------------
(* generate_tags_time_series *)

\* Sort key of a formatted time point (the text order of the zero-padded mask)
PointKey(p) == IF Len(p) = 2 THEN p[1] * HoursPerDay + p[2] ELSE p[1] * HoursPerDay

\* tags_counts_subquery: matching tag rows grouped by (formatted
\* JournalEntryTag.created_at, tag)
tags_counts_subquery(matching, time_mask) ==
    {[timeseries_points |-> g[1], tag |-> g[2],
      count |-> Cardinality({r \in matching :
                    r.tag = g[2] /\ to_char(r.created_at, time_mask) = g[1]})] :
        g \in {<<to_char(r.created_at, time_mask), r.tag>> : r \in matching}}

\* The condition of the outer join of the skeleton with the counts
JoinOnTagOnly(point, tag, c) == tag = c.tag

JoinOn(point, tag, c) == tag = c.tag /\ point = c.timeseries_points

\* One output record of the response loop
SeriesRecord(point, count, time_mask) ==
    IF time_mask = "YYYY-MM-DD HH24"
    THEN [date |-> point[1], hour |-> point[2], count |-> count]
    ELSE [date |-> point[1], count |-> count]

\* Rows of the outer join for one skeleton row: one per matching count row,
\* or a single row with coalesce(NULL, 0)
JoinRows(point, tag, counts, time_mask) ==
    LET m == {c \in counts : JoinOn(point, tag, c)}
    IN IF m = {} THEN <<SeriesRecord(point, 0, time_mask)>>
       ELSE LET ordered == SortedBy(m, [c \in m |-> PointKey(c.timeseries_points)])
            IN [i \in DOMAIN ordered |->
                   SeriesRecord(point, ordered[i].count, time_mask)]

generate_tags_time_series(E, T, journal_id, filter_condition, time_step, time_mask, start, end_arg, clock) ==
    LET end == IF end_arg = None THEN clock ELSE end_arg
        time_series == IF start = None THEN <<>>
                       ELSE generate_series(start, end, time_step)
        matching == JoinedTags(E, T, journal_id, filter_condition, start, end)
        tags_requested == {r.tag : r \in matching}
        \* the skeleton's time column, ORDER BY timeseries_points DESC: the
        \* series ascends and the mask keeps its order
        points == Reverse([i \in DOMAIN time_series |->
                              to_char(time_series[i], time_mask)])
        counts == tags_counts_subquery(matching, time_mask)
    IN [tag \in tags_requested |->
           Flatten([i \in DOMAIN points |->
                       JoinRows(points[i], tag, counts, time_mask)])]

-----------------------------------------------------------------------------
(* generate_most_used_tags_summary *)

TopN == 10

\* Orders in which the store may return rows that the query does not order
TieBreaks == {"asc", "desc"}

\* GROUP BY tag with count(id)
TagCountRows(matching) ==
    {[tag |-> t, count |-> Cardinality({r \in matching : r.tag = t})] :
        t \in {r.tag : r \in matching}}

\* The rows of a grouping in the order the store returns them
RowOrder(rows, tie) ==
    LET asc == SortedBy(rows, [r \in rows |-> TagKey(r.tag)])
    IN IF tie = "asc" THEN asc ELSE Reverse(asc)

generate_most_used_tags_summary_nolimit(E, T, journal_id, filter_condition, start, end, tie) ==
    LET rows == TagCountRows(JoinedTags(E, T, journal_id, filter_condition, start, end))
    IN StableSortDesc(RowOrder(rows, tie), [r \in rows |-> r.count])

\* The returned dict, as the sequence of its items in insertion order
generate_most_used_tags_summary(E, T, journal_id, filter_condition, start, end, tie) ==
    LET rows == TagCountRows(JoinedTags(E, T, journal_id, filter_condition, start, end))
    IN Limit(StableSortDesc(RowOrder(rows, tie), [r \in rows |-> r.count]), TopN)

-----------------------------------------------------------------------------
(* entropy and generate_highest_entropy_tags *)

\* math.log of 1..12, in millionths
LnTable == <<0, 693147, 1098612, 1386294, 1609438, 1791759,
             1945910, 2079442, 2197225, 2302585, 2397895, 2484907>>

Ok(v) == [raised |-> "none", value |-> v]
Raise(e) == [raised |-> e, value |-> 0]

\* (a / total) * math.log(total / a), in millionths
EntropyTerm(a, total) ==
    IF total = 0 \/ a = 0 THEN Raise("ZeroDivisionError")
    ELSE IF a < 0 THEN Raise("ValueError")
    ELSE Ok((a * (LnTable[total] - LnTable[a])) \div total)

entropy_one_sided(count, total) == EntropyTerm(count, total)

entropy(count, total) ==
    LET t1 == EntropyTerm(count, total)
        t2 == EntropyTerm(total - count, total)
    IN IF t1.raised # "none" THEN t1
       ELSE IF t2.raised # "none" THEN t2
       ELSE Ok(t1.value + t2.value)

\* The tag_filter of the entries query: True, or EXISTS a matching tag
EntryInScope(e, T, filter_condition) ==
    \/ filter_condition.kind = "true"
    \/ \E r \in T : r.entry = e.id /\ Matches(filter_condition, r.tag)

entries_total_count_any_journal(E, T, journal_id, filter_condition, start, end) ==
    Cardinality({e \in E : /\ EntryInScope(e, T, filter_condition)
                           /\ InWindow(e.created_at, start, end)})

\* entries_query.count()
entries_total_count(E, T, journal_id, filter_condition, start, end) ==
    Cardinality({e \in E : /\ e.journal = journal_id
                           /\ EntryInScope(e, T, filter_condition)
                           /\ InWindow(e.created_at, start, end)})

\* One pass of the loop body: the score of a tag, and whether entropy() ran
EntropyRowUnguarded(count, total) ==
    LET h == entropy(count, total)
    IN [raised |-> h.raised, value |-> h.value, called |-> TRUE]

EntropyRowZeroTotal(count, total) ==
    IF count = 0 \/ total = 0 \/ count = total
    THEN [raised |-> "none", value |-> 0, called |-> FALSE]
    ELSE LET h == entropy(count, total)
         IN [raised |-> h.raised, value |-> h.value, called |-> TRUE]

EntropyRow(count, total) ==
    IF count = 0 THEN [raised |-> "none", value |-> 0, called |-> FALSE]
    ELSE IF total = 0
         THEN [raised |-> "ZeroDivisionError", value |-> 0, called |-> FALSE]
    ELSE IF count = total THEN [raised |-> "none", value |-> 0, called |-> FALSE]
    ELSE LET h == entropy(count, total)
         IN [raised |-> h.raised, value |-> h.value, called |-> TRUE]

\* The loop over tags_count, the sort and the cut, given the total counted by
\* the first query and the rows of the second one.  value: the returned dict
\* as the sequence of its items; calls: the arguments entropy() was called with
HighestEntropyFrom(total, rows, tie) ==
    LET ordered == RowOrder(rows, tie)
        scored == [i \in DOMAIN ordered |-> EntropyRow(ordered[i].count, total)]
        bad == {i \in DOMAIN ordered : scored[i].raised # "none"}
        first == CHOOSE i \in bad : \A j \in bad : i <= j
        upto == IF bad = {} THEN Len(ordered) ELSE first
        calls == {<<ordered[i].count, total>> :
                     i \in {j \in 1..upto : scored[j].called}}
        unsorted_tags == [i \in DOMAIN ordered |->
                             [tag |-> ordered[i].tag, score |-> scored[i].value]]
        sorted_tags == StableSortDesc(unsorted_tags,
                           [x \in Range(unsorted_tags) |-> x.score])
    IN IF bad # {}
       THEN [raised |-> scored[first].raised, value |-> <<>>, calls |-> calls]
       ELSE [raised |-> "none", value |-> Limit(sorted_tags, TopN), calls |-> calls]

generate_highest_entropy_tags(E, T, journal_id, filter_condition, start, end, tie) ==
    HighestEntropyFrom(
        entries_total_count(E, T, journal_id, filter_condition, start, end),
        TagCountRows(JoinedTags(E, T, journal_id, filter_condition, start, end)),
        tie)

-----------------------------------------------------------------------------
(* entries_by_days *)

entries_by_days(E, T, journal_id, filter_condition, start_day) ==
    LET rows == {e \in E : /\ EntryInScope(e, T, filter_condition)
                           /\ e.journal = journal_id
                           /\ start_day # None
                           /\ DATE(e.created_at) * HoursPerDay > start_day}
        dates == {DATE(e.created_at) : e \in rows}
        asc == SortedBy(dates, [d \in dates |-> d])
    IN Reverse([i \in DOMAIN asc |->
                   [date |-> asc[i],
                    count |-> Cardinality({e \in rows : DATE(e.created_at) = asc[i]})]])

-----------------------------------------------------------------------------
(* generate_events_summary *)

\* subquery "events": tag rows like "<event_name>:%" of the journal's entries
entry_ids_with_tag(E, T, journal_id, event_name, start, end) ==
    JoinedTags(E, T, journal_id, Like(event_name), start, end)

\* subquery "errors": tag rows like "error:%" of the journal's entries
entry_ids_with_error_tag(E, T, journal_id, start, end) ==
    JoinedTags(E, T, journal_id, Like("error"), start, end)

\* top_10_group_by: the dict "common" as the sequence of its items
events_common(E, T, journal_id, event_name, start, end, tie) ==
    LET rows == TagCountRows(entry_ids_with_tag(E, T, journal_id, event_name, start, end))
    IN Limit(StableSortDesc(RowOrder(rows, tie), [r \in rows |-> r.count]), TopN)

\* A histogram of a grouping: count value -> number of labels with that count
Distribution(rows) ==
    [g \in {r.count : r \in rows} |-> Cardinality({r \in rows : r.count = g})]

events_counts_distribution_per_label(E, T, journal_id, event_name, start, end) ==
    LET rows == TagCountRows(entry_ids_with_tag(E, T, journal_id, event_name, start, end))
    IN [g \in {r.count : r \in rows} |-> 1]

\* events_counts_distribution
events_counts_distribution(E, T, journal_id, event_name, start, end) ==
    Distribution(TagCountRows(entry_ids_with_tag(E, T, journal_id, event_name, start, end)))

\* events_with_error_counts: events joined to errors on entry_id, grouped by event
events_with_error_counts(E, T, journal_id, event_name, start, end) ==
    LET ev == entry_ids_with_tag(E, T, journal_id, event_name, start, end)
        er == entry_ids_with_error_tag(E, T, journal_id, start, end)
        pairs == {p \in ev \X er : p[1].entry = p[2].entry}
    IN {[tag |-> t, count |-> Cardinality({p \in pairs : p[1].tag = t})] :
           t \in {p[1].tag : p \in pairs}}

\* events_with_errors_counts_distribution
events_with_errors_counts_distribution(E, T, journal_id, event_name, start, end) ==
    Distribution(events_with_error_counts(E, T, journal_id, event_name, start, end))

\* total_event_count / total_event_errors_count: the sum of a histogram's values
HistogramTotal(h) == SumOver(DOMAIN h, h)

\* errors_histogram with the key "0" (written here as 0) set by subtraction
errors_histogram_with_zero(events_hist, errors_hist) ==
    [g \in DOMAIN errors_hist \cup {0} |->
        IF g = 0 THEN HistogramTotal(events_hist) - HistogramTotal(errors_hist)
        ELSE errors_hist[g]]

-----------------------------------------------------------------------------
(* week_to_week_retention *)

\* CTE clients_events: distinct (client tag, week) of the journal's client tags
\* whose own created_at lies in the window
clients_events(E, T, journal_id, start, end) ==
    {[client |-> r.tag, created_at_week |-> date_trunc_week(r.created_at)] :
        r \in {x \in T : /\ Matches(Like("client"), x.tag)
                         /\ InWindow(x.created_at, start, end)
                         /\ \E e \in E : e.id = x.entry /\ e.journal = journal_id}}

\* CTE transitions: week1 joined to week2 one week later, same client
transitions_any_client(ce) ==
    {[client |-> p[1].client, week1 |-> p[1].created_at_week,
      week2 |-> p[2].created_at_week] :
        p \in {q \in ce \X ce :
                  q[2].created_at_week = q[1].created_at_week + WeekLen}}

transitions(ce) ==
    {[client |-> p[1].client, week1 |-> p[1].created_at_week,
      week2 |-> p[2].created_at_week] :
        p \in {q \in ce \X ce :
                  /\ q[2].created_at_week = q[1].created_at_week + WeekLen
                  /\ q[2].client = q[1].client}}

week_to_week_retention_query_inner(ce) ==
    LET tr == transitions(ce)
        weeks == {t.week2 : t \in tr}
    IN {[week |-> w,
         wau |-> Cardinality({c.client : c \in {x \in ce : x.created_at_week = w}}),
         num_returning_clients |->
             Cardinality({t.client : t \in {x \in tr : x.week2 = w}})] :
           w \in weeks}

\* The joined query: one row per week of wau, with its returning clients
week_to_week_retention_query(ce) ==
    LET tr == transitions(ce)
        weeks == {c.created_at_week : c \in ce}
    IN {[week |-> w,
         wau |-> Cardinality({c.client : c \in {x \in ce : x.created_at_week = w}}),
         num_returning_clients |->
             Cardinality({t.client : t \in {x \in tr : x.week2 = w}})] :
           w \in weeks}

\* The list "retention": the rows in the order the store returns them
week_to_week_retention(E, T, journal_id, start, end, tie) ==
    LET rows == week_to_week_retention_query(clients_events(E, T, journal_id, start, end))
        asc == SortedBy(rows, [r \in rows |-> r.week])
        ordered == IF tie = "asc" THEN asc ELSE Reverse(asc)
    IN [i \in DOMAIN ordered |->
           [week |-> ordered[i].week, week_index |-> i - 1,
            wau |-> ordered[i].wau,
            num_returning_clients |-> ordered[i].num_returning_clients]]

-----------------------------------------------------------------------------
(* The store, the journals and the units of a batch *)

\* table journals: J1 has no search index, J2 has one
Journals == {[id |-> "J1", search_index |-> FALSE],
             [id |-> "J2", search_index |-> TRUE]}

Unit(journal_id, timescale, stats_type) ==
    [journal |-> journal_id, timescale |-> timescale, stats_type |-> stats_type]

NoUnit == Unit("", "", "")

\* The order of the enums TimeScales and StatsTypes of data.py
available_timescales == <<"year", "month", "week", "day">>
available_types == <<"errors", "stats", "session", "client">>

\* The calls of generate_and_push made by the loops of statistics_generate_handler
\* for one journal, in order
HandlerUnitsOf(journal) ==
    LET types == <<"stats", "errors", "session", "client">>
        skip(t) == journal.search_index /\ t \in {"errors", "session", "client"}
        row(ts) == SelectSeq([i \in DOMAIN types |-> Unit(journal.id, ts, types[i])],
                             LAMBDA u : ~skip(u.stats_type))
    IN Flatten([i \in DOMAIN available_timescales |-> row(available_timescales[i])])

\* get_journals_list followed by the loop over journals
HandlerUnits(journal_ids) ==
    LET js == {j \in Journals : journal_ids = {} \/ j.id \in journal_ids}
        ordered == SortedBy(js, [j \in js |-> IF j.id = "J1" THEN 1 ELSE 2])
    IN Flatten([i \in DOMAIN ordered |-> HandlerUnitsOf(ordered[i])])

\* The calls made by the loops of generate_and_push_in_own_process, in order
OwnProcessUnits(journal_id, stats_types, timescales) ==
    Flatten([i \in DOMAIN timescales |->
                [k \in DOMAIN stats_types |->
                    Unit(journal_id, timescales[i], stats_types[k])]])

\* A lookup that takes every id for the id of a journal
JournalExistsAlways(journal_id) == TRUE

\* get_journal(...).one_or_none() found a journal
JournalExists(journal_id) == \E j \in Journals : j.id = journal_id

PlannedUnits(d) ==
    IF d.kind = "cli" THEN HandlerUnits(d.journals)
    ELSE IF JournalExists(d.journal_id)
         THEN OwnProcessUnits(d.journal_id, d.stats_types, d.timescales)
         ELSE <<>>

-----------------------------------------------------------------------------
(* get_statistics: its local state and its document *)

EmptyData == [k \in {} |-> 0]

\* dict[key] = value / dict.update({key: value})
Put(data, key, value) ==
    [x \in DOMAIN data \cup {key} |-> IF x = key THEN value ELSE data[x]]

NoDoc == [created_at |-> None, schema |-> "", data |-> EmptyData]

NoLoc == [total |-> None, entropy |-> <<>>, most_used |-> <<>>, common |-> <<>>,
          events_histogram |-> EmptyData, errors_histogram |-> EmptyData,
          errors_grouping |-> EmptyData, calls |-> {}, raised |-> "none"]

EventTypes == {"session", "client"}

\* The filter get_statistics builds for its statistics type
TypeFilter(stats_type) ==
    IF stats_type \in EventTypes THEN Like(stats_type)
    ELSE IF stats_type = "errors" THEN Like("error")
    ELSE NoFilter

\* The filter of the time series: for stats, the labels of both rankings
SeriesFilter(stats_type, most_used, highest_entropy) ==
    IF stats_type = "stats"
    THEN In({most_used[i].tag : i \in DOMAIN most_used}
            \cup {highest_entropy[i].tag : i \in DOMAIN highest_entropy})
    ELSE TypeFilter(stats_type)

FirstStepAlwaysEntries(u) == "entries"

\* The first statement get_statistics runs for a unit
FirstStep(u) ==
    IF u.timescale = "year" THEN "entries"
    ELSE IF u.stats_type \in EventTypes THEN "events_common"
    ELSE "entropy_total"

QuerySteps == {"entries", "events_common", "events_hist", "errors_hist",
               "retention", "entropy_total", "entropy_tags", "most_used",
               "timeseries"}

\* A document stamped with the start of the last day instead of the clock
NewDocDayStart(stats_type, clock) ==
    [created_at |-> clock - HoursPerDay, schema |-> stats_type, data |-> EmptyData]

\* statistics_response right after its construction
NewDoc(stats_type, clock) ==
    [created_at |-> clock, schema |-> stats_type, data |-> EmptyData]

-----------------------------------------------------------------------------
(* The batch drivers: statistics_generate_handler (cli.py) and                *)
(* generate_and_push_in_own_process (statistics.py)                           *)

CliDriver(journal_ids) ==
    [kind |-> "cli", journals |-> journal_ids, journal_id |-> "",
     stats_types |-> <<>>, timescales |-> <<>>, push_to_bucket |-> TRUE]

ApiDriver(journal_id, stats_types, timescales, push_to_bucket) ==
    [kind |-> "api", journals |-> {}, journal_id |-> journal_id,
     stats_types |-> stats_types, timescales |-> timescales,
     push_to_bucket |-> push_to_bucket]

\* No driver runs yet: the request was not served
NoDriver ==
    [kind |-> "none", journals |-> {}, journal_id |-> "",
     stats_types |-> <<>>, timescales |-> <<>>, push_to_bucket |-> TRUE]

-----------------------------------------------------------------------------
(* POST /jobs/stats_update: generate_stats_and_return_url (api.py) *)

\* Strings built by f-strings are sequences of their pieces
DRONES_BUCKET_STATISTICS_PREFIX == <<"prefix">>

s3_version_prefix == <<"v5", "/">>

\* UpdateStatsRequest
UpdateStatsRequest(journal_id, stats_version, stats_type, timescale, push_to_bucket) ==
    [journal_id |-> journal_id, stats_version |-> stats_version,
     stats_type |-> stats_type, timescale |-> timescale,
     push_to_bucket |-> push_to_bucket]

NoRequest == UpdateStatsRequest("", None, <<>>, <<>>, TRUE)

NoResponse == [status_code |-> None, modified_since |-> None,
               journal_statistics |-> <<>>]

\* [v for v in values if v in available]
Recognized(values, available) ==
    SelectSeq(values, LAMBDA v : v \in Range(available))

\* result_key of the endpoint
api_result_key(journal_id, timescale, stats_file) ==
    DRONES_BUCKET_STATISTICS_PREFIX \o <<"/", journal_id, "/">>
        \o s3_version_prefix \o <<timescale, "/", stats_file, ".json">>

\* s3_client.generate_presigned_url("get_object", ...)
generate_presigned_url(key) == [HttpMethod |-> "GET", Key |-> key]

\* stats_urls: one item per timescale and type, timescales outermost
stats_urls(journal_id, timescales, stats_types) ==
    Flatten([i \in DOMAIN timescales |->
                [k \in DOMAIN stats_types |->
                    [timescale |-> timescales[i], stats_type |-> stats_types[k],
                     stats_url |-> generate_presigned_url(
                         api_result_key(journal_id, timescales[i], stats_types[k]))]]])

\* The task added to background_tasks
BackgroundTaskUnfiltered(r) ==
    ApiDriver(r.journal_id, r.stats_type, r.timescale, r.push_to_bucket)

BackgroundTask(r) ==
    ApiDriver(r.journal_id, Recognized(r.stats_type, available_types),
              Recognized(r.timescale, available_timescales), r.push_to_bucket)

\* The endpoint serves the request: HTTP 400 for another stats_version;
\* otherwise the URLs are presigned, the generation is added to the
\* background tasks and the response is returned
StatsUpdate ==
    /\ pc = "request"
    /\ IF request.stats_version # 5
       THEN /\ response' = [status_code |-> 400, modified_since |-> None,
                            journal_statistics |-> <<>>]
            /\ background_tasks' = background_tasks
            /\ pc' = "rejected"
       ELSE /\ response' =
                  [status_code |-> 200, modified_since |-> now,
                   journal_statistics |->
                       stats_urls(request.journal_id,
                                  Recognized(request.timescale, available_timescales),
                                  Recognized(request.stats_type, available_types))]
            /\ background_tasks' = Append(background_tasks, BackgroundTask(request))
            /\ pc' = "start"
    /\ UNCHANGED <<humbug_vars, maintenance_vars, now, entries, tags, writes, driver, todo, attempted, cur,
                   start_date, loc, doc, seen, failed_at, sink, escaped, faults,
                   request, produced>>

-----------------------------------------------------------------------------
(* The drivers at work *)

\* The driver starts (a background task is taken up after the response was
\* sent), runs its queries for the journals and enters its loops
DriverStart ==
    /\ pc = "start"
    /\ driver' = IF background_tasks # <<>> THEN Head(background_tasks) ELSE driver
    /\ background_tasks' =
           IF background_tasks # <<>> THEN Tail(background_tasks) ELSE background_tasks
    /\ todo' = PlannedUnits(driver')
    /\ pc' = "loop"
    /\ UNCHANGED <<humbug_vars, maintenance_vars, now, entries, tags, writes, attempted, cur,
                   start_date, loc, doc, seen, failed_at, sink, escaped, faults,
                   request, response, produced>>

\* The loops are exhausted: the driver's finally closes its session
DriverEnd ==
    /\ pc = "loop"
    /\ todo = <<>>
    /\ pc' = "end"
    /\ UNCHANGED <<humbug_vars, maintenance_vars, now, entries, tags, writes, driver, todo, attempted, cur,
                   start_date, loc, doc, seen, failed_at, sink, escaped, faults,
                   request, response, background_tasks, produced>>

\* generate_and_push is called for the next unit: session_local_spire()
\* succeeds, start_date and the masks are computed, get_statistics builds
\* statistics_response and reaches its first statement
GP_Enter ==
    /\ pc = "loop"
    /\ todo # <<>>
    /\ Head(todo).timescale \in TimeScales
    /\ cur' = Head(todo)
    /\ attempted' = Append(attempted, Head(todo))
    /\ start_date' = now - timescales_delta(Head(todo).timescale)
    /\ doc' = NewDoc(Head(todo).stats_type, now)
    /\ loc' = NoLoc
    /\ seen' = {}
    /\ failed_at' = "none"
    /\ pc' = FirstStep(Head(todo))
    /\ UNCHANGED <<humbug_vars, maintenance_vars, now, entries, tags, writes, driver, todo, sink, escaped, faults,
                   request, response, background_tasks, produced>>

\* Where the KeyError of timescales_delta[timescale] lands
OnInvalidTimescalePropagate == "end"

OnInvalidTimescale == "gp_finally"

\* generate_and_push is called with a timescale the tables do not hold: the
\* lookup raises inside the try, the except prints the error
GP_InvalidTimescale ==
    /\ pc = "loop"
    /\ todo # <<>>
    /\ Head(todo).timescale \notin TimeScales
    /\ cur' = Head(todo)
    /\ attempted' = Append(attempted, Head(todo))
    /\ pc' = OnInvalidTimescale
    /\ UNCHANGED <<humbug_vars, maintenance_vars, now, entries, tags, writes, driver,
                   todo, start_date, loc, doc, seen, failed_at, sink, escaped,
                   faults, request, response, background_tasks, produced>>

\* session_local_spire() raises: the call is outside generate_and_push's try,
\* the exception reaches the driver's except, which ends the batch
GP_OpenSessionFails ==
    /\ pc = "loop"
    /\ todo # <<>>
    /\ cur' = Head(todo)
    /\ attempted' = Append(attempted, Head(todo))
    /\ escaped' = escaped \cup {Head(todo)}
    /\ pc' = "end"
    /\ faults < MaxFaults
    /\ faults' = faults + 1
    /\ UNCHANGED <<humbug_vars, maintenance_vars, now, entries, tags, writes, driver, todo, start_date, loc,
                   doc, seen, failed_at, sink,
                   request, response, background_tasks, produced>>

-----------------------------------------------------------------------------
(* get_statistics, one action per statement sent to the store *)

Snapshot == <<entries, tags>>

\* Where an exception raised by a statement of get_statistics lands
OnQueryErrorPropagate == "end"

OnQueryError == "gs_return"

\* The step after entries_by_days
AfterEntries(u) ==
    IF u.stats_type \in EventTypes THEN "events_common" ELSE "entropy_total"

GS_Entries ==
    /\ pc = "entries"
    /\ doc' = [doc EXCEPT !.data = Put(@, "entries",
                   entries_by_days(entries, tags, cur.journal,
                                   TypeFilter(cur.stats_type), start_date))]
    /\ seen' = seen \cup {Snapshot}
    /\ pc' = AfterEntries(cur)
    /\ UNCHANGED <<humbug_vars, maintenance_vars, now, entries, tags, writes, driver, todo, attempted, cur,
                   start_date, loc, failed_at, sink, escaped, faults,
                   request, response, background_tasks, produced>>

GS_EntropyTotal ==
    /\ pc = "entropy_total"
    /\ loc' = [loc EXCEPT !.total =
                   entries_total_count(entries, tags, cur.journal,
                                       TypeFilter(cur.stats_type), start_date, None)]
    /\ seen' = seen \cup {Snapshot}
    /\ pc' = "entropy_tags"
    /\ UNCHANGED <<humbug_vars, maintenance_vars, now, entries, tags, writes, driver, todo, attempted, cur,
                   start_date, doc, failed_at, sink, escaped, faults,
                   request, response, background_tasks, produced>>

\* The tags_count query and the loop over it; an exception of the loop is
\* caught by get_statistics, which returns the document as it is
GS_EntropyTags ==
    /\ pc = "entropy_tags"
    /\ \E tie \in TieBreaks :
         LET rows == TagCountRows(JoinedTags(entries, tags, cur.journal,
                                     TypeFilter(cur.stats_type), start_date, None))
             res == HighestEntropyFrom(loc.total, rows, tie)
         IN /\ loc' = [loc EXCEPT !.entropy = res.value, !.calls = res.calls,
                                  !.raised = res.raised]
            /\ failed_at' = IF res.raised = "none" THEN failed_at ELSE "entropy_tags"
            /\ pc' = IF res.raised = "none" THEN "most_used" ELSE OnQueryError
    /\ seen' = seen \cup {Snapshot}
    /\ UNCHANGED <<humbug_vars, maintenance_vars, now, entries, tags, writes, driver, todo, attempted, cur,
                   start_date, doc, sink, escaped, faults,
                   request, response, background_tasks, produced>>

GS_MostUsed ==
    /\ pc = "most_used"
    /\ \E tie \in TieBreaks :
         loc' = [loc EXCEPT !.most_used =
                     generate_most_used_tags_summary(entries, tags, cur.journal,
                         TypeFilter(cur.stats_type), start_date, None, tie)]
    /\ seen' = seen \cup {Snapshot}
    /\ pc' = "timeseries"
    /\ UNCHANGED <<humbug_vars, maintenance_vars, now, entries, tags, writes, driver, todo, attempted, cur,
                   start_date, doc, failed_at, sink, escaped, faults,
                   request, response, background_tasks, produced>>

\* The keys under which the rankings and the series are merged
CommonKey(stats_type) ==
    IF stats_type = "errors" THEN "most_common_errors" ELSE "most_common_tags"

SeriesKey(stats_type) ==
    IF stats_type = "errors" THEN "errors_time_series" ELSE "tags"

\* generate_tags_time_series, then the merge of the three parts into data
GS_TimeSeries ==
    /\ pc = "timeseries"
    /\ LET timeseries ==
               generate_tags_time_series(entries, tags, cur.journal,
                   SeriesFilter(cur.stats_type, loc.most_used, loc.entropy),
                   timestep(cur.timescale), timeformat(cur.timescale),
                   start_date, None, now)
       IN doc' = [doc EXCEPT !.data =
                      Put(Put(Put(@, CommonKey(cur.stats_type), loc.most_used),
                              "highest_entropy_tags", loc.entropy),
                          SeriesKey(cur.stats_type), timeseries)]
    /\ seen' = seen \cup {Snapshot}
    /\ pc' = "gs_return"
    /\ UNCHANGED <<humbug_vars, maintenance_vars, now, entries, tags, writes, driver, todo, attempted, cur,
                   start_date, loc, failed_at, sink, escaped, faults,
                   request, response, background_tasks, produced>>

GS_EventsCommon ==
    /\ pc = "events_common"
    /\ \E tie \in TieBreaks :
         loc' = [loc EXCEPT !.common =
                     events_common(entries, tags, cur.journal, cur.stats_type,
                                   start_date, None, tie)]
    /\ seen' = seen \cup {Snapshot}
    /\ pc' = "events_hist"
    /\ UNCHANGED <<humbug_vars, maintenance_vars, now, entries, tags, writes, driver, todo, attempted, cur,
                   start_date, doc, failed_at, sink, escaped, faults,
                   request, response, background_tasks, produced>>

GS_EventsHist ==
    /\ pc = "events_hist"
    /\ loc' = [loc EXCEPT !.events_histogram =
                   events_counts_distribution(entries, tags, cur.journal,
                       cur.stats_type, start_date, None)]
    /\ seen' = seen \cup {Snapshot}
    /\ pc' = "errors_hist"
    /\ UNCHANGED <<humbug_vars, maintenance_vars, now, entries, tags, writes, driver, todo, attempted, cur,
                   start_date, doc, failed_at, sink, escaped, faults,
                   request, response, background_tasks, produced>>

\* data.update(event_summary)
MergeEvents(data, l) ==
    Put(Put(Put(data, "common", l.common),
            "events_histogram", l.events_histogram),
        "errors_histogram", l.errors_histogram)

\* The last query of generate_events_summary and the "0" bucket; for a type
\* other than client the summary is merged right away
GS_ErrorsHist ==
    /\ pc = "errors_hist"
    /\ LET grouping == events_with_errors_counts_distribution(entries, tags,
                           cur.journal, cur.stats_type, start_date, None)
           eh == errors_histogram_with_zero(loc.events_histogram, grouping)
           l == [loc EXCEPT !.errors_histogram = eh, !.errors_grouping = grouping]
       IN /\ loc' = l
          /\ IF cur.stats_type = "client"
             THEN doc' = doc /\ pc' = "retention"
             ELSE doc' = [doc EXCEPT !.data = MergeEvents(@, l)] /\ pc' = "gs_return"
    /\ seen' = seen \cup {Snapshot}
    /\ UNCHANGED <<humbug_vars, maintenance_vars, now, entries, tags, writes, driver, todo, attempted, cur,
                   start_date, failed_at, sink, escaped, faults,
                   request, response, background_tasks, produced>>

\* week_to_week_retention is merged, then the event summary
GS_Retention ==
    /\ pc = "retention"
    /\ \E tie \in TieBreaks :
         doc' = [doc EXCEPT !.data =
                     MergeEvents(Put(@, "retention",
                         week_to_week_retention(entries, tags, cur.journal,
                                                start_date, None, tie)), loc)]
    /\ seen' = seen \cup {Snapshot}
    /\ pc' = "gs_return"
    /\ UNCHANGED <<humbug_vars, maintenance_vars, now, entries, tags, writes, driver, todo, attempted, cur,
                   start_date, loc, failed_at, sink, escaped, faults,
                   request, response, background_tasks, produced>>

\* The store raises on the current statement: the except of get_statistics
\* logs it and the document is returned as it is
GS_QueryFails ==
    /\ pc \in QuerySteps
    /\ failed_at' = pc
    /\ pc' = OnQueryError
    /\ faults < MaxFaults
    /\ faults' = faults + 1
    /\ UNCHANGED <<humbug_vars, maintenance_vars, now, entries, tags, writes, driver, todo, attempted, cur,
                   start_date, loc, doc, seen, sink, escaped,
                   request, response, background_tasks, produced>>

-----------------------------------------------------------------------------
(* generate_and_push after get_statistics returned *)

\* statistics_file as generate_and_push passes it
statistics_file_flat(timescale, stats_type) == <<timescale, "_", stats_type, ".json">>

statistics_file(timescale, stats_type) == <<timescale, "/", stats_type, ".json">>

\* result_key of push_statistics
result_key(journal_id, file) ==
    DRONES_BUCKET_STATISTICS_PREFIX \o <<"/", journal_id, "/", "v5", "/">> \o file

\* The key under which the document of a unit is stored
ResultKey(u) == result_key(u.journal, statistics_file(u.timescale, u.stats_type))

\* The documents kept for comparison: those of units that come again in the batch
Produced(kept, u, data, rest) ==
    IF u \in Range(rest) THEN kept \cup {[unit |-> u, data |-> data]} ELSE kept

\* push_statistics stores the document (skipped without push_to_bucket)
GP_Push ==
    /\ pc = "gs_return"
    /\ sink' = IF driver.push_to_bucket THEN sink \cup {ResultKey(cur)} ELSE sink
    /\ produced' = Produced(produced, cur, doc.data, Tail(todo))
    /\ pc' = "gp_finally"
    /\ UNCHANGED <<humbug_vars, maintenance_vars, now, entries, tags, writes, driver, todo, attempted, cur,
                   start_date, loc, doc, seen, failed_at, escaped, faults,
                   request, response, background_tasks>>

\* put_object raises: the except of generate_and_push prints the error
GP_PushFails ==
    /\ pc = "gs_return"
    /\ driver.push_to_bucket
    /\ produced' = Produced(produced, cur, doc.data, Tail(todo))
    /\ pc' = "gp_finally"
    /\ faults < MaxFaults
    /\ faults' = faults + 1
    /\ UNCHANGED <<humbug_vars, maintenance_vars, now, entries, tags, writes, driver, todo, attempted, cur,
                   start_date, loc, doc, seen, failed_at, sink, escaped,
                   request, response, background_tasks>>

\* The finally closes the unit's session, generate_and_push returns (its
\* locals are gone) and the driver's loop goes on
GP_Close ==
    /\ pc = "gp_finally"
    /\ todo' = Tail(todo)
    /\ pc' = "loop"
    /\ cur' = NoUnit
    /\ start_date' = None
    /\ loc' = NoLoc
    /\ doc' = NoDoc
    /\ seen' = {}
    /\ failed_at' = "none"
    /\ UNCHANGED <<humbug_vars, maintenance_vars, now, entries, tags, writes, driver, attempted, sink,
                   escaped, faults,
                   request, response, background_tasks, produced>>

\* db_session_spire.close() raises in the finally: the exception leaves
\* generate_and_push and reaches the driver's except, which ends the batch
GP_CloseFails ==
    /\ pc = "gp_finally"
    /\ escaped' = escaped \cup {cur}
    /\ pc' = "end"
    /\ faults < MaxFaults
    /\ faults' = faults + 1
    /\ UNCHANGED <<humbug_vars, maintenance_vars, now, entries, tags, writes, driver, todo, attempted, cur,
                   start_date, loc, doc, seen, failed_at, sink,
                   request, response, background_tasks, produced>>

-----------------------------------------------------------------------------
(* A concurrent writer: write_reports (humbug_reports.py) commits one report *)
(* as an entry of journal J1.  The entry carries the report's own            *)
(* created_at, its tag rows the time of the commit.                          *)

ReportTagSets == {{<<"client", 2>>, <<"error", 1>>}, {<<"session", 1>>}}

\* report.created_at as stamped by the reporting client
ReportTimes(clock) == {clock - 1}

NextEntryId(E) == Cardinality(E) + 1

WriteReport ==
    /\ pc \in QuerySteps
    /\ writes < MaxWrites
    /\ \E report_tags \in ReportTagSets, created_at \in ReportTimes(now) :
         LET id == NextEntryId(entries)
         IN /\ entries' = entries \cup
                   {[id |-> id, journal |-> "J1", created_at |-> created_at]}
            /\ tags' = tags \cup
                   {[entry |-> id, tag |-> t, created_at |-> now] :
                        t \in report_tags \cup {<<"reporter_token", 1>>}}
    /\ writes' = writes + 1
    /\ UNCHANGED <<humbug_vars, maintenance_vars, now, driver, pc, todo, attempted, cur, start_date, loc, doc,
                   seen, failed_at, sink, escaped, faults,
                   request, response, background_tasks, produced>>

-----------------------------------------------------------------------------
(* The reports poller: process_humbug_tasks_queue (humbug_reports.py)        *)
(*                                                                           *)
(* A report in the queue is a JSON string: [id, bugout_token, parses], where *)
(* parses tells whether upload_report_tasks can build its task from it.      *)
(* The failed queue and the committed journal entries are counted            *)
(* per report, up to MaxCounted.                                             *)

MaxCounted == 2     \* rows told apart per report: 0, 1, ..., MaxCounted or more

Report(id, bugout_token, parses) ==
    [id |-> id, bugout_token |-> bugout_token, parses |-> parses]

\* Token T1 belongs to an integration of journal J1; T0 to none
ReportPool == {Report(1, "T1", TRUE), Report(2, "T0", TRUE),
               Report(3, "T1", FALSE), Report(4, "T1", TRUE)}

ReportIds == {r.id : r \in ReportPool}

\* The rows of humbug_bugout_user_tokens joined to their events
Integrations == {[restricted_token_id |-> "T1", journal_id |-> "J1"],
                 [restricted_token_id |-> "T2", journal_id |-> "J9"]}

\* A Python value that is a list of reports, None, or not bound yet
List(items) == [kind |-> "list", items |-> items]
NoneValue == [kind |-> "None", items |-> <<>>]
\* report_tasks before its first assignment
Unbound == [kind |-> "unbound", items |-> <<>>]

NoCounts == [id \in ReportIds |-> 0]

\* rpush of the reports of a sequence / commits of one more entry
Counted(counts, reports) ==
    [id \in ReportIds |->
        Min(counts[id] + Cardinality({i \in DOMAIN reports : reports[i].id = id}),
            MaxCounted)]

\* The Redis command: the items it returns (None for LPOP on an empty list)
\* and the list it leaves
execute_command(command, queue, chunk_size) ==
    IF command = "lrange"
    THEN [reports_json |-> List(SubSeq(queue, 1, Min(chunk_size, Len(queue)))),
          queue |-> queue]
    ELSE IF queue = <<>>
         THEN [reports_json |-> NoneValue, queue |-> queue]
         ELSE [reports_json |-> List(SubSeq(queue, 1, Min(chunk_size, Len(queue)))),
               queue |-> SubSeq(queue, Min(chunk_size, Len(queue)) + 1, Len(queue))]

\* upload_report_tasks: the parsed tasks it returns (None after a parsing
\* error or without items), the queue it leaves, the failed queue
upload_report_tasks(queue, failed, command, chunk_size) ==
    LET got == execute_command(command, queue, chunk_size)
        items == got.reports_json.items
    IN IF got.reports_json = NoneValue
       THEN [tasks |-> NoneValue, queue |-> got.queue, failed |-> failed]
       ELSE IF \E i \in DOMAIN items : ~items[i].parses
            THEN [tasks |-> NoneValue, queue |-> got.queue,
                  failed |-> Counted(failed, items)]
            ELSE [tasks |-> List(items), queue |-> got.queue, failed |-> failed]

\* get_humbug_integrations: journal ids by token, for the tokens of the tasks
\* whose journal exists
get_humbug_integrations(tasks) ==
    {i \in Integrations :
        /\ \E k \in DOMAIN tasks : tasks[k].bugout_token = i.restricted_token_id
        /\ JournalExists(i.journal_id)}

\* journal_by_token.get(token) is truthy
HasJournal(by_token, token) == \E i \in by_token : i.restricted_token_id = token

\* `not report_tasks`
Falsy(tasks) == tasks = NoneValue \/ tasks = List(<<>>)

\* The loop calls upload_report_tasks; without tasks it returns, or sleeps
\* when blocking
PollUpload ==
    /\ pc = "poll"
    /\ LET r == upload_report_tasks(reports_queue, failed_queue,
                                    polling.upload_command, polling.chunk_size)
       IN /\ reports_queue' = r.queue
          /\ failed_queue' = r.failed
          /\ report_tasks' = r.tasks
          /\ pc' = IF Falsy(r.tasks)
                   THEN (IF polling.block THEN "sleep" ELSE "returned")
                   ELSE "integrations"
    /\ UNCHANGED <<stats_vars, maintenance_vars, now, entries, tags, faults,
                   journal_by_token, unwritten, committed, polling>>

\* time.sleep(timeout), then continue
PollWake ==
    /\ pc = "sleep"
    /\ pc' = "poll"
    /\ UNCHANGED <<stats_vars, maintenance_vars, humbug_vars, now, entries, tags,
                   faults>>

\* redis_connection() or the Redis command raises: report_tasks keeps the
\* value it had, the handler of the loop runs
PollUploadFails ==
    /\ pc = "poll"
    /\ faults < MaxFaults
    /\ faults' = faults + 1
    /\ pc' = "handler"
    /\ UNCHANGED <<stats_vars, maintenance_vars, humbug_vars, now, entries, tags>>

\* get_humbug_integrations, then write_reports enters its loop
PollIntegrations ==
    /\ pc = "integrations"
    /\ journal_by_token' = get_humbug_integrations(report_tasks.items)
    /\ unwritten' = report_tasks.items
    /\ pc' = "write"
    /\ UNCHANGED <<stats_vars, maintenance_vars, now, entries, tags, faults,
                   reports_queue, failed_queue, report_tasks, committed, polling>>

\* The query of get_humbug_integrations raises
PollIntegrationsFails ==
    /\ pc = "integrations"
    /\ faults < MaxFaults
    /\ faults' = faults + 1
    /\ pc' = "handler"
    /\ UNCHANGED <<stats_vars, maintenance_vars, humbug_vars, now, entries, tags>>

\* write_reports: the token of the task has no journal: continue
WR_Skip ==
    /\ pc = "write"
    /\ unwritten # <<>>
    /\ ~HasJournal(journal_by_token, Head(unwritten).bugout_token)
    /\ unwritten' = Tail(unwritten)
    /\ UNCHANGED <<stats_vars, maintenance_vars, now, entries, tags, faults, pc,
                   reports_queue, failed_queue, report_tasks, journal_by_token,
                   committed, polling>>

\* write_reports: the entry of the task is added and committed
WR_Commit ==
    /\ pc = "write"
    /\ unwritten # <<>>
    /\ HasJournal(journal_by_token, Head(unwritten).bugout_token)
    /\ committed' = Counted(committed, <<Head(unwritten)>>)
    /\ unwritten' = Tail(unwritten)
    /\ UNCHANGED <<stats_vars, maintenance_vars, now, entries, tags, faults, pc,
                   reports_queue, failed_queue, report_tasks, journal_by_token,
                   polling>>

\* write_reports: the commit raises: the task goes to the failed queue and
\* the session is rolled back
WR_CommitFails ==
    /\ pc = "write"
    /\ unwritten # <<>>
    /\ HasJournal(journal_by_token, Head(unwritten).bugout_token)
    /\ faults < MaxFaults
    /\ faults' = faults + 1
    /\ failed_queue' = Counted(failed_queue, <<Head(unwritten)>>)
    /\ unwritten' = Tail(unwritten)
    /\ UNCHANGED <<stats_vars, maintenance_vars, now, entries, tags, pc,
                   reports_queue, report_tasks, journal_by_token, committed,
                   polling>>

\* write_reports returns, the count is printed and the loop goes on
WR_Return ==
    /\ pc = "write"
    /\ unwritten = <<>>
    /\ pc' = "poll"
    /\ UNCHANGED <<stats_vars, maintenance_vars, humbug_vars, now, entries, tags,
                   faults>>

\* The handler of the loop: every task report_tasks holds goes to the failed
\* queue; reading report_tasks before its first assignment raises
\* UnboundLocalError, which leaves the function
PollHandler ==
    /\ pc = "handler"
    /\ IF report_tasks = Unbound
       THEN pc' = "crashed" /\ failed_queue' = failed_queue
       ELSE /\ pc' = "poll"
            /\ failed_queue' = IF Falsy(report_tasks) THEN failed_queue
                               ELSE Counted(failed_queue, report_tasks.items)
    /\ UNCHANGED <<stats_vars, maintenance_vars, now, entries, tags, faults,
                   reports_queue, report_tasks, journal_by_token, unwritten,
                   committed, polling>>

PollNext ==
    \/ PollUpload
    \/ PollWake
    \/ PollUploadFails
    \/ PollIntegrations
    \/ PollIntegrationsFails
    \/ WR_Skip
    \/ WR_Commit
    \/ WR_CommitFails
    \/ WR_Return
    \/ PollHandler

\* The arguments of start_polling
Polling(upload_command, chunk_size, block) ==
    [upload_command |-> upload_command, chunk_size |-> chunk_size, block |-> block]

NoPolling == Polling("", 0, FALSE)

\* No poller runs
IdleHumbug ==
    /\ reports_queue = <<>>
    /\ failed_queue = NoCounts
    /\ report_tasks = Unbound
    /\ journal_by_token = {}
    /\ unwritten = <<>>
    /\ committed = NoCounts
    /\ polling = NoPolling

-----------------------------------------------------------------------------
(* journal_entries_cleanup_handler (cli.py)                                  *)

\* A range that leaves out its first value
range_open(start, stop, step) ==
    IF stop <= start + step THEN <<>>
    ELSE [k \in 1..((stop - 1 - start - step) \div step + 1) |-> start + k * step]

\* list(range(start, stop, step)) for step >= 1
range(start, stop, step) ==
    IF stop <= start THEN <<>>
    ELSE [k \in 1..((stop - 1 - start) \div step + 1) |-> start + (k - 1) * step]

\* The arguments --max-entries and --batch-size and the handler's locals
Cleanup(max_entries, batch_size) ==
    [max_entries |-> max_entries, batch_size |-> batch_size,
     counts |-> <<>>, deleting_range |-> <<>>]

\* table journals for the cleanup: J1 and J3 have no search index, J2 has one
CleanupJournals == Journals \cup {[id |-> "J3", search_index |-> FALSE]}

NoCleanup == Cleanup(None, None)

\* The rows of entries_count_per_journal: journals without a search index
\* joined to their entries, in one of the orders the store may return them
entries_count_per_journal(E, journals, order) ==
    LET js == {j \in journals : ~j.search_index /\ \E e \in E : e.journal = j.id}
        key == [j \in js |-> IF (j.id = "J1") = (order = "asc") THEN 1 ELSE 2]
        ordered == SortedBy(js, key)
    IN [i \in DOMAIN ordered |->
           [entries_count |-> Cardinality({e \in E : e.journal = ordered[i].id}),
            journal_id |-> ordered[i].id]]

\* The sets of entries a delete with entry_number > entry_count may leave:
\* row_number() over created_at desc numbers ties in any order
KeptSets(E, journal_id, entry_count) ==
    LET own == {e \in E : e.journal = journal_id}
    IN {K \in SUBSET own :
          /\ Cardinality(K) = Min(entry_count, Cardinality(own))
          /\ \A k \in K, d \in own \ K : k.created_at >= d.created_at}

\* The counts query
CleanupStart ==
    /\ pc = "cleanup_start"
    /\ \E order \in {"asc", "desc"} :
         cleanup' = [cleanup EXCEPT
                        !.counts = entries_count_per_journal(entries, CleanupJournals,
                                                             order)]
    /\ pc' = "cleanup_loop"
    /\ UNCHANGED <<stats_vars, humbug_vars, now, entries, tags, faults, migration,
                   store0>>

\* A journal within max_entries: the loop goes on
CleanupSkip ==
    /\ pc = "cleanup_loop"
    /\ cleanup.counts # <<>>
    /\ ~(Head(cleanup.counts).entries_count > cleanup.max_entries)
    /\ cleanup' = [cleanup EXCEPT !.counts = Tail(cleanup.counts)]
    /\ UNCHANGED <<stats_vars, humbug_vars, now, entries, tags, faults, pc,
                   migration, store0>>

\* A journal above max_entries: the range of the deletes, from its end
CleanupRange ==
    /\ pc = "cleanup_loop"
    /\ cleanup.counts # <<>>
    /\ Head(cleanup.counts).entries_count > cleanup.max_entries
    /\ cleanup' = [cleanup EXCEPT
                      !.deleting_range =
                          Reverse(range(cleanup.max_entries,
                                        Head(cleanup.counts).entries_count,
                                        cleanup.batch_size))]
    /\ pc' = "cleanup_delete"
    /\ UNCHANGED <<stats_vars, humbug_vars, now, entries, tags, faults, migration,
                   store0>>

\* One delete statement and its commit; the tag rows go with their entries
CleanupDelete ==
    /\ pc = "cleanup_delete"
    /\ cleanup.deleting_range # <<>>
    /\ \E K \in KeptSets(entries, Head(cleanup.counts).journal_id,
                         Head(cleanup.deleting_range)) :
         /\ entries' = {e \in entries :
                           e.journal = Head(cleanup.counts).journal_id => e \in K}
         /\ tags' = {r \in tags : \E e \in entries' : e.id = r.entry}
    /\ cleanup' = [cleanup EXCEPT !.deleting_range = Tail(cleanup.deleting_range)]
    /\ UNCHANGED <<stats_vars, humbug_vars, now, faults, pc, migration, store0>>

\* The delete raises: the handler logs the error and rolls back
CleanupDeleteFails ==
    /\ pc = "cleanup_delete"
    /\ cleanup.deleting_range # <<>>
    /\ faults < MaxFaults
    /\ faults' = faults + 1
    /\ pc' = "cleanup_failed"
    /\ UNCHANGED <<stats_vars, humbug_vars, maintenance_vars, now, entries, tags>>

\* The deletes of the journal are done
CleanupNext ==
    /\ pc = "cleanup_delete"
    /\ cleanup.deleting_range = <<>>
    /\ cleanup' = [cleanup EXCEPT !.counts = Tail(cleanup.counts)]
    /\ pc' = "cleanup_loop"
    /\ UNCHANGED <<stats_vars, humbug_vars, now, entries, tags, faults, migration,
                   store0>>

\* The loop over the journals is exhausted
CleanupEnd ==
    /\ pc = "cleanup_loop"
    /\ cleanup.counts = <<>>
    /\ pc' = "cleanup_done"
    /\ UNCHANGED <<stats_vars, humbug_vars, maintenance_vars, now, entries, tags,
                   faults>>

CleanupSteps ==
    \/ CleanupStart
    \/ CleanupSkip
    \/ CleanupRange
    \/ CleanupDelete
    \/ CleanupDeleteFails
    \/ CleanupNext
    \/ CleanupEnd

-----------------------------------------------------------------------------
(* The migration error_tags (migrations/add_error_tag.py)                    *)
(*                                                                           *)
(* An entry's title is the sequence title.split(" - ") gives; an error name  *)
(* is a number.                                                              *)

\* The tags "type:error" and "error_migration_v1"
type_error == <<"type", 0>>
error_migration_v1 == <<"error_migration_v1", 0>>

HasTag(T, e, tag) == \E r \in T : r.entry = e.id /\ r.tag = tag
HasTagLike(T, e, prefix) == \E r \in T : r.entry = e.id /\ Matches(Like(prefix), r.tag)

InJournal(e, journal_id) == journal_id = "None" \/ e.journal = journal_id

\* old_entries that skips the check for an existing error tag
upgrade_old_entries_any(E, T, journal_id) ==
    {e \in E : HasTag(T, e, type_error) /\ InJournal(e, journal_id)}

\* old_entries of upgrade
upgrade_old_entries(E, T, journal_id) ==
    {e \in E : /\ HasTag(T, e, type_error)
               /\ ~HasTagLike(T, e, "error")
               /\ InJournal(e, journal_id)}

\* new_tags of upgrade
new_tags(E, T, journal_id, clock) ==
    LET named == {e \in upgrade_old_entries(E, T, journal_id) : Len(e.title) >= 2}
    IN {[entry |-> e.id, tag |-> <<"error", e.title[2]>>,
         created_at |-> e.created_at] : e \in named}
       \cup {[entry |-> e.id, tag |-> error_migration_v1, created_at |-> clock] :
                e \in named}

\* The rows delete_query of downgrade removes
delete_query(E, T, journal_id) ==
    LET old_entries == {e \in E : /\ HasTag(T, e, error_migration_v1)
                                  /\ InJournal(e, journal_id)}
    IN {r \in T : /\ \E e \in old_entries : e.id = r.entry
                  /\ (r.tag = error_migration_v1 \/ Matches(Like("error"), r.tag))}

Ran(action, journal_id, outcome) ==
    [action |-> action, journal_id |-> journal_id, outcome |-> outcome]

MaxRuns == 2        \* migration commands per behaviour

JournalArgs == {"None", "J1", "J2"}

\* upgrade(journal_id): the new tags are saved and committed
Upgrade ==
    /\ pc = "migrate"
    /\ Len(migration) < MaxRuns
    /\ \E journal_id \in JournalArgs :
         /\ tags' = tags \cup new_tags(entries, tags, journal_id, now)
         /\ migration' = Append(migration, Ran("upgrade", journal_id, "done"))
    /\ UNCHANGED <<stats_vars, humbug_vars, now, entries, faults, pc, cleanup,
                   store0>>

\* downgrade(journal_id): the delete and its commit
Downgrade ==
    /\ pc = "migrate"
    /\ Len(migration) < MaxRuns
    /\ \E journal_id \in JournalArgs :
         /\ tags' = tags \ delete_query(entries, tags, journal_id)
         /\ migration' = Append(migration, Ran("downgrade", journal_id, "done"))
    /\ UNCHANGED <<stats_vars, humbug_vars, now, entries, faults, pc, cleanup,
                   store0>>

\* The store raises during a migration: the error is logged, nothing is
\* committed
MigrationFails ==
    /\ pc = "migrate"
    /\ Len(migration) < MaxRuns
    /\ faults < MaxFaults
    /\ faults' = faults + 1
    /\ \E action \in {"upgrade", "downgrade"}, journal_id \in JournalArgs :
         migration' = Append(migration, Ran(action, journal_id, "failed"))
    /\ UNCHANGED <<stats_vars, humbug_vars, now, entries, tags, pc, cleanup,
                   store0>>

MigrationSteps ==
    \/ Upgrade
    \/ Downgrade
    \/ MigrationFails

\* No maintenance command runs
IdleMaintenance ==
    /\ cleanup = NoCleanup
    /\ migration = <<>>
    /\ store0 = <<{}, {}>>

-----------------------------------------------------------------------------
(* Initial states *)

\* The clock at the start: day 500, 10:00
Now0 == 500 * DayLen + 10

Entry(id, journal, created_at) ==
    [id |-> id, journal |-> journal, created_at |-> created_at]

TagRow(entry, tag, created_at) ==
    [entry |-> entry, tag |-> tag, created_at |-> created_at]

\* A small store for the runs with a concurrent writer: nothing of J1 lies in
\* the last 24 hours
BaseEntries == {Entry(1, "J1", Now0 - 30), Entry(2, "J1", Now0 - 8 * DayLen),
                Entry(3, "J2", Now0 - 3)}

BaseTags == {TagRow(1, <<"error", 1>>, Now0 - 30),
             TagRow(1, <<"client", 1>>, Now0 - 30),
             TagRow(1, <<"session", 1>>, Now0 - 30),
             TagRow(2, <<"client", 1>>, Now0 - 8 * DayLen),
             TagRow(2, <<"error", 2>>, Now0 - 8 * DayLen),
             TagRow(3, <<"os", 1>>, Now0 - 3)}

\* Request bodies: unrecognized values, a journal that does not exist, an
\* old stats_version
Requests ==
    {UpdateStatsRequest("J1", 5, <<"stats", "bogus", "client">>,
                        <<"day", "decade", "week">>, TRUE),
     UpdateStatsRequest("J1", 5, <<"errors", "session">>, <<"day">>, FALSE),
     UpdateStatsRequest("J0", 5, <<"stats">>, <<"week">>, TRUE),
     UpdateStatsRequest("J1", 4, <<"stats">>, <<"day">>, TRUE)}

InitProcess ==
    /\ now = Now0
    /\ writes = 0
    /\ todo = <<>>
    /\ attempted = <<>>
    /\ cur = NoUnit
    /\ start_date = None
    /\ loc = NoLoc
    /\ doc = NoDoc
    /\ seen = {}
    /\ failed_at = "none"
    /\ sink = {}
    /\ escaped = {}
    /\ faults = 0
    /\ response = NoResponse
    /\ background_tasks = <<>>
    /\ produced = {}

\* Direct calls of generate_and_push_in_own_process: a timescale that is not
\* in the tables, a journal that does not exist
DirectCalls ==
    {ApiDriver("J1", <<"stats">>, <<"decade", "day">>, TRUE),
     ApiDriver("J0", <<"stats", "errors">>, <<"day", "week">>, TRUE)}

\* The command "statistics generate" over all journals, a request to the
\* endpoint, or a direct call
Init ==
    /\ InitProcess
    /\ IdleHumbug
    /\ IdleMaintenance
    /\ entries = BaseEntries
    /\ tags = BaseTags
    /\ \/ driver = CliDriver({}) /\ request = NoRequest /\ pc = "start"
       \/ driver = NoDriver /\ request \in Requests /\ pc = "request"
       \/ driver \in DirectCalls /\ request = NoRequest /\ pc = "start"

\* Ranking fixtures: three entries of J1 inside every window and, for each
\* count value c, profile[c] error tags borne by the entries 1..c; extra adds
\* an entry without tags
CountValues == 1..3

RankEntries(extra) ==
    {Entry(i, "J1", Now0 - i) : i \in CountValues}
    \cup (IF extra = 1 THEN {Entry(4, "J1", Now0 - 4)} ELSE {})

RankTags(profile) ==
    {TagRow(r[3], <<"error", 10 * r[1] + r[2]>>, Now0 - r[3]) :
        r \in {x \in CountValues \X (1..MaxPerCount) \X CountValues :
                  x[2] <= profile[x[1]] /\ x[3] <= x[1]}}

\* Time fixtures: entries spread over the windows and a pool of tag rows
FixEntries == {Entry(1, "J1", Now0 - 1),
               Entry(2, "J1", Now0 - 23),
               Entry(3, "J1", Now0 - 5 * DayLen),
               Entry(4, "J1", Now0 - 20 * DayLen),
               Entry(5, "J1", Now0 - 400 * DayLen),
               Entry(6, "J2", Now0 - 1)}

\* Rows every time fixture holds: a tag older than a year and one of journal J2
FixedTags == {TagRow(5, <<"error", 1>>, Now0 - 400 * DayLen),
              TagRow(6, <<"error", 1>>, Now0 - 1)}

\* Entry 2 is a report whose client clock ran two hours ahead of the commit;
\* entry 3 got its error tag long after it was created
TagPool == {TagRow(1, <<"client", 1>>, Now0 - 1),
            TagRow(1, <<"error", 1>>, Now0 - 1),
            TagRow(2, <<"error", 1>>, Now0 - 25),
            TagRow(2, <<"client", 3>>, Now0 - 23),
            TagRow(3, <<"client", 1>>, Now0 - 5 * DayLen),
            TagRow(3, <<"client", 2>>, Now0 - 5 * DayLen),
            TagRow(3, <<"error", 2>>, Now0 - 2),
            TagRow(4, <<"error", 1>>, Now0 - 20 * DayLen)}

\* Clock fixture: entry 7 is a report whose client clock runs two hours ahead
\* of the store's; it was committed an hour ago and is dated an hour from now
ClockEntries == FixEntries \cup {Entry(7, "J1", Now0 + 1)}

ClockTags == FixedTags \cup {TagRow(1, <<"error", 1>>, Now0 - 1),
                             TagRow(7, <<"error", 1>>, Now0 - 1),
                             TagRow(7, <<"os", 1>>, Now0 - 1)}

InitFix ==
    /\ InitProcess
    /\ IdleHumbug
    /\ IdleMaintenance
    /\ request = NoRequest
    /\ pc = "start"
    /\ \/ /\ \E profile \in [CountValues -> 0..MaxPerCount], extra \in {0, 1} :
               entries = RankEntries(extra) /\ tags = RankTags(profile)
          /\ \E t \in {"errors", "stats"} :
               driver = ApiDriver("J1", <<t>>, <<"week">>, TRUE)
       \/ /\ entries = FixEntries
          /\ \E pool \in SUBSET TagPool : tags = pool \cup FixedTags
          /\ \E t \in StatsTypes, ts \in TimeScales :
               driver = ApiDriver("J1", <<t>>, <<ts>>, TRUE)
       \/ /\ entries = ClockEntries
          /\ tags = ClockTags
          /\ \E t \in {"errors", "stats"}, ts \in TimeScales :
               driver = ApiDriver("J1", <<t>>, <<ts>>, TRUE)
       \/ /\ entries = FixEntries
          /\ tags = TagPool \cup FixedTags
          /\ \E t \in StatsTypes :
               driver = ApiDriver("J1", <<t, t>>, <<"week">>, TRUE)
       \/ /\ entries = RankEntries(0)
          /\ tags = RankTags([c \in CountValues |-> MaxPerCount])
          /\ driver = ApiDriver("J1", <<"errors", "errors">>, <<"week">>, TRUE)

-----------------------------------------------------------------------------
(* Specifications *)

\* The steps of a run in which nothing raises
Steps ==
    \/ DriverStart
    \/ DriverEnd
    \/ GP_Enter
    \/ GS_Entries
    \/ GS_EntropyTotal
    \/ GS_EntropyTags
    \/ GS_MostUsed
    \/ GS_TimeSeries
    \/ GS_EventsCommon
    \/ GS_EventsHist
    \/ GS_ErrorsHist
    \/ GS_Retention
    \/ GP_Push
    \/ GP_Close

\* The store, the sink or the session raises
Failures ==
    \/ GP_InvalidTimescale
    \/ GP_OpenSessionFails
    \/ GS_QueryFails
    \/ GP_PushFails
    \/ GP_CloseFails

Next == StatsUpdate \/ Steps \/ Failures \/ WriteReport

\* Batch runs with failures and a concurrent writer
Spec == Init /\ [][Next]_vars

\* Single units over the fixtures, on a store nobody writes to
SpecFix == InitFix /\ [][Steps]_vars

-----------------------------------------------------------------------------
(* Properties of generate_tags_time_series *)

\* get_statistics returned a document of type errors or stats, nothing raised
SeriesDone ==
    pc = "gs_return" /\ failed_at = "none" /\ cur.stats_type \in {"errors", "stats"}

TheSeries == doc.data[SeriesKey(cur.stats_type)]

TheSeriesFilter == SeriesFilter(cur.stats_type, loc.most_used, loc.entropy)

TheMask == timeformat(cur.timescale)

\* The buckets of the dense sequence from start to end (the clock), by the step
DenseBuckets ==
    {to_char(start_date + k * timestep(cur.timescale), TheMask) :
        k \in 0..((now - start_date) \div timestep(cur.timescale))}

\* The matching occurrences inside the window: tag rows that pass the filter
\* and whose entry belongs to the journal and was created inside (start, end)
Occurrences ==
    {r \in tags :
        /\ Matches(TheSeriesFilter, r.tag)
        /\ \E e \in entries : /\ e.id = r.entry /\ e.journal = cur.journal
                              /\ e.created_at > start_date /\ e.created_at < now}

RecordPoint(rec) ==
    IF TheMask = "YYYY-MM-DD HH24" THEN <<rec.date, rec.hour>> ELSE <<rec.date>>

\* C1: in the time series, every distinct tag matching the filter inside the
\* window has exactly one record for every bucket of the dense sequence, so
\* every tag's list is as long as the sequence of buckets.
C1_OneRecordPerTagAndBucket ==
    SeriesDone =>
        /\ DOMAIN TheSeries = {r.tag : r \in Occurrences}
        /\ \A t \in DOMAIN TheSeries :
             /\ Len(TheSeries[t]) = Cardinality(DenseBuckets)
             /\ {RecordPoint(TheSeries[t][i]) : i \in DOMAIN TheSeries[t]} = DenseBuckets

\* A series of two tags or more, with a bucket that counts and one that is empty
C1_Witness ==
    /\ SeriesDone
    /\ Cardinality(DOMAIN TheSeries) >= 2
    /\ \E t \in DOMAIN TheSeries : \E i, j \in DOMAIN TheSeries[t] :
         TheSeries[t][i].count > 0 /\ TheSeries[t][j].count = 0

\* C2: the count of the record of a (tag, bucket) pair is the number of
\* matching occurrences of the tag in that bucket (0 when there is none), and
\* every matching occurrence inside the window is counted in the record of its
\* own bucket, hence in one bucket exactly.
C2_CountsAreOccurrences ==
    SeriesDone =>
        /\ \A t \in DOMAIN TheSeries : \A i \in DOMAIN TheSeries[t] :
             TheSeries[t][i].count =
                 Cardinality({r \in Occurrences :
                     /\ r.tag = t
                     /\ to_char(r.created_at, TheMask) = RecordPoint(TheSeries[t][i])})
        /\ \A r \in Occurrences :
             /\ r.tag \in DOMAIN TheSeries
             /\ \E i \in DOMAIN TheSeries[r.tag] :
                  RecordPoint(TheSeries[r.tag][i]) = to_char(r.created_at, TheMask)

-----------------------------------------------------------------------------
(* Properties of the rankings *)

\* The filter of the current unit's rankings
TheFilter == TypeFilter(cur.stats_type)

\* The occurrences of a tag string: its rows that pass the filter on entries of
\* the journal created after the start of the window (the rankings get no end)
TagOccurrences(t) ==
    Cardinality({r \in tags :
        /\ r.tag = t
        /\ Matches(TheFilter, r.tag)
        /\ \E e \in entries : /\ e.id = r.entry /\ e.journal = cur.journal
                              /\ e.created_at > start_date})

\* The tag strings with an occurrence
OccurringTags == {t \in {r.tag : r \in tags} : TagOccurrences(t) > 0}

\* The in-scope entries of the window
ScopeTotal ==
    Cardinality({e \in entries :
        /\ e.journal = cur.journal
        /\ e.created_at > start_date
        /\ \/ TheFilter.kind = "true"
           \/ \E r \in tags : r.entry = e.id /\ Matches(TheFilter, r.tag)})

\* Binary entropy of c/n in millionths of a nat, 0 < c < n; 0 at c = 0, c = n
BinaryEntropy(c, n) ==
    IF c = 0 \/ c = n THEN 0
    ELSE (c * (LnTable[n] - LnTable[c])) \div n
         + ((n - c) * (LnTable[n] - LnTable[n - c])) \div n

RankedTags(ranking) == {ranking[i].tag : i \in DOMAIN ranking}

\* generate_most_used_tags_summary returned and its result is at hand
MostUsedDone == pc = "timeseries"

\* C3: the frequency ranking holds at most 10 tags, all distinct; each count is
\* the number of occurrences of that tag string matching the filter in the
\* window; the counts do not increase along the ranking; a tag is left out
\* only of a full ranking, and its count exceeds no returned count.
C3_MostUsedRanking ==
    MostUsedDone =>
        LET mu == loc.most_used
        IN /\ Len(mu) <= 10
           /\ RankedTags(mu) \subseteq OccurringTags
           /\ Cardinality(RankedTags(mu)) = Len(mu)
           /\ \A i \in DOMAIN mu : mu[i].count = TagOccurrences(mu[i].tag)
           /\ \A i, j \in DOMAIN mu : i < j => mu[i].count >= mu[j].count
           /\ \A t \in OccurringTags \ RankedTags(mu) :
                /\ Len(mu) = 10
                /\ \A i \in DOMAIN mu : TagOccurrences(t) <= mu[i].count

\* A full ranking with unequal counts and a tag left out
C3_Witness ==
    /\ MostUsedDone
    /\ Len(loc.most_used) = 10
    /\ loc.most_used[1].count > loc.most_used[10].count
    /\ OccurringTags \ RankedTags(loc.most_used) # {}

\* generate_highest_entropy_tags returned and its result is at hand
EntropyDone == pc = "most_used"

\* C4: the entropy ranking holds at most 10 tags, all distinct; each score is
\* the binary entropy of count(t)/total, total being the number of in-scope
\* entries of the window; the scores do not increase along the ranking; a tag
\* is left out only of a full ranking, and its score exceeds no returned score.
C4_HighestEntropyRanking ==
    EntropyDone =>
        LET he == loc.entropy
            H(t) == BinaryEntropy(TagOccurrences(t), ScopeTotal)
        IN /\ Len(he) <= 10
           /\ RankedTags(he) \subseteq OccurringTags
           /\ Cardinality(RankedTags(he)) = Len(he)
           /\ \A i \in DOMAIN he : he[i].score = H(he[i].tag)
           /\ \A i, j \in DOMAIN he : i < j => he[i].score >= he[j].score
           /\ \A t \in OccurringTags \ RankedTags(he) :
                /\ Len(he) = 10
                /\ \A i \in DOMAIN he : H(t) <= he[i].score

\* A full ranking with two different positive scores and a tag left out
C4_Witness ==
    /\ EntropyDone
    /\ Len(loc.entropy) = 10
    /\ loc.entropy[1].score > loc.entropy[10].score
    /\ loc.entropy[10].score > 0
    /\ OccurringTags \ RankedTags(loc.entropy) # {}

\* C5: with total > 0, entropy() is never called for a tag whose count is 0 or
\* equals total, the loop does not raise on such a tag, and a returned tag
\* whose count equals total has the score 0.
C5_BoundaryScoreIsZero ==
    loc.total > 0 =>
        /\ \A c \in loc.calls : c[1] # 0 /\ c[1] # c[2]
        /\ loc.raised = "none"
        /\ pc \notin {"entropy_total", "entropy_tags"} =>
             \A i \in DOMAIN loc.entropy :
                TagOccurrences(loc.entropy[i].tag) = loc.total
                    => loc.entropy[i].score = 0

\* A ranking that holds a tag borne by every in-scope entry next to a tag that
\* was scored by the formula
C5_Witness ==
    /\ EntropyDone
    /\ loc.total > 0
    /\ loc.calls # {}
    /\ \E i \in DOMAIN loc.entropy :
         /\ TagOccurrences(loc.entropy[i].tag) = loc.total
         /\ loc.entropy[i].score = 0

\* C6: when the total counted by generate_highest_entropy_tags is 0, the
\* function raises ZeroDivisionError or returns an empty ranking; it raises
\* nothing else and returns no tag.
C6_ZeroTotal ==
    loc.total = 0 =>
        /\ loc.entropy = <<>>
        /\ loc.raised \in {"none", "ZeroDivisionError"}

\* The total was 0 and the loop met a tag: division by zero
C6_Witness ==
    /\ loc.total = 0
    /\ loc.raised = "ZeroDivisionError"
    /\ failed_at = "entropy_tags"

\* The total was 0 and the function returned the empty ranking
C6_WitnessEmpty ==
    /\ loc.total = 0
    /\ pc = "most_used"
    /\ loc.entropy = <<>>

-----------------------------------------------------------------------------
(* Properties of get_statistics and of the batch drivers *)

\* C7: all the statements get_statistics runs for one document read the same
\* snapshot of entries and tags, also with a concurrent writer.
C7_OneSnapshotPerDocument ==
    Cardinality(seen) <= 1

\* The keys get_statistics merges for a type when nothing raises
TypeKeys(stats_type) ==
    CASE stats_type = "errors" ->
             {"most_common_errors", "highest_entropy_tags", "errors_time_series"}
      [] stats_type = "stats" ->
             {"most_common_tags", "highest_entropy_tags", "tags"}
      [] stats_type = "session" ->
             {"common", "events_histogram", "errors_histogram"}
      [] stats_type = "client" ->
             {"retention", "common", "events_histogram", "errors_histogram"}

\* The keys merged before the statement that raised (all, when none did)
MergedKeys(u, failed) ==
    (IF u.timescale = "year" /\ failed # "entries" THEN {"entries"} ELSE {})
    \cup (IF failed = "none" THEN TypeKeys(u.stats_type) ELSE {})

\* The document get_statistics returns
DocumentReturned ==
    /\ DOMAIN doc = {"created_at", "schema", "data"}
    /\ doc.created_at = now
    /\ doc.schema = cur.stats_type
    /\ DOMAIN doc.data = MergedKeys(cur, failed_at)

\* C8: whatever a statement of get_statistics raises, get_statistics returns:
\* it is left only by its return, with a document of created_at, schema and
\* data, data holding the parts merged before the failure and no other.
C8_GetStatisticsReturns ==
    [][(pc \in QuerySteps /\ pc' \notin QuerySteps)
          => (pc' = "gs_return" /\ DocumentReturned')]_vars

\* A year document returned after a failure, holding entries alone
C8_Witness ==
    /\ pc = "gs_return"
    /\ failed_at \notin {"none", "entries"}
    /\ DOMAIN doc.data = {"entries"}

\* A document returned empty after the division by zero of the entropy ranking
C8_WitnessRaised ==
    /\ pc = "gs_return"
    /\ loc.raised # "none"
    /\ DOMAIN doc.data = {}

\* C9: at the end of a batch run every unit of the batch was attempted,
\* whatever failed in the units before it.
C9_EveryUnitAttempted ==
    pc = "end" => Range(attempted) = Range(PlannedUnits(driver))

\* C10: every record of the retention list has num_returning_clients <= wau.
C10_ReturningAtMostActive ==
    (pc = "gs_return" /\ failed_at = "none" /\ cur.stats_type = "client") =>
        \A i \in DOMAIN doc.data["retention"] :
            doc.data["retention"][i].num_returning_clients
                <= doc.data["retention"][i].wau

\* A retention list with a returning client and a week of two active clients
C10_Witness ==
    /\ pc = "gs_return" /\ failed_at = "none" /\ cur.stats_type = "client"
    /\ \E i \in DOMAIN doc.data["retention"] :
         doc.data["retention"][i].num_returning_clients >= 1
    /\ \E i \in DOMAIN doc.data["retention"] :
         doc.data["retention"][i].wau >= 2

-----------------------------------------------------------------------------
(* Properties of week_to_week_retention *)

\* get_statistics returned a document of type client, nothing raised
RetentionDone ==
    pc = "gs_return" /\ failed_at = "none" /\ cur.stats_type = "client"

TheRetention == doc.data["retention"]

\* The clients active in the week that starts at w: the client tags of the
\* journal with a row created in that week, inside the window
ActiveClients(w) ==
    {r.tag : r \in {x \in tags :
        /\ x.tag[1] = "client"
        /\ x.created_at > start_date
        /\ date_trunc_week(x.created_at) = w
        /\ \E e \in entries : e.id = x.entry /\ e.journal = cur.journal}}

\* The weeks of the window with a client tag
ActiveWeeks ==
    {w \in {date_trunc_week(x.created_at) : x \in tags} : ActiveClients(w) # {}}

\* C11: the retention list holds exactly one record per week with a client tag
\* in the window; its wau is the number of distinct clients active in that
\* week and its num_returning_clients the number of distinct clients active in
\* that week and in the week before it (0 when there is none).
C11_RetentionRecords ==
    RetentionDone =>
        /\ Len(TheRetention) = Cardinality(ActiveWeeks)
        /\ {TheRetention[i].week : i \in DOMAIN TheRetention} = ActiveWeeks
        /\ \A i \in DOMAIN TheRetention :
             LET w == TheRetention[i].week
             IN /\ TheRetention[i].wau = Cardinality(ActiveClients(w))
                /\ TheRetention[i].num_returning_clients =
                       Cardinality(ActiveClients(w) \cap ActiveClients(w - WeekLen))

\* Two weeks: two clients in the first and none returning, one of them back in
\* the second
C11_Witness ==
    /\ RetentionDone
    /\ Len(TheRetention) = 2
    /\ \E i, j \in DOMAIN TheRetention :
         /\ TheRetention[i].wau = 2 /\ TheRetention[i].num_returning_clients = 0
         /\ TheRetention[j].week = TheRetention[i].week + WeekLen
         /\ TheRetention[j].wau = 1 /\ TheRetention[j].num_returning_clients = 1

-----------------------------------------------------------------------------
(* Properties of generate_events_summary *)

\* events_counts_distribution was read and events_histogram is at hand
EventsHistogramDone ==
    cur.stats_type \in EventTypes /\ pc = "errors_hist"

\* The event labels of the window that occur exactly c times
LabelsWithCount(c) == {t \in OccurringTags : TagOccurrences(t) = c}

\* C12: for every count value c, events_histogram[c] is the number of distinct
\* event labels of the window that occur exactly c times, and the histogram
\* has no key for a count value that no label has.
C12_EventsHistogram ==
    EventsHistogramDone =>
        /\ DOMAIN loc.events_histogram = {TagOccurrences(t) : t \in OccurringTags}
        /\ \A c \in DOMAIN loc.events_histogram :
             loc.events_histogram[c] = Cardinality(LabelsWithCount(c))

\* Two labels that occur once and one label that occurs twice
C12_Witness ==
    /\ EventsHistogramDone
    /\ DOMAIN loc.events_histogram = {1, 2}
    /\ loc.events_histogram[1] = 2
    /\ loc.events_histogram[2] = 1

\* generate_events_summary read its last query and set the key "0"
ErrorsHistogramDone ==
    cur.stats_type \in EventTypes /\ 0 \in DOMAIN loc.errors_histogram

\* The event labels of the window borne by an entry that bears an error tag
LabelsWithError ==
    {t \in OccurringTags :
        \E r \in tags, x \in tags :
            /\ r.tag = t /\ x.entry = r.entry /\ x.tag[1] = "error"
            /\ \E e \in entries : /\ e.id = r.entry /\ e.journal = cur.journal
                                  /\ e.created_at > start_date}

\* C13: errors_histogram["0"] is the number of distinct event labels minus the
\* number of event labels borne together with an error tag; it is never
\* negative, the grouping of the labels with errors has no bucket for count 0,
\* and the values of errors_histogram sum to the total of events_histogram.
C13_ZeroBucket ==
    ErrorsHistogramDone =>
        /\ loc.errors_histogram[0] >= 0
        /\ 0 \notin DOMAIN loc.errors_grouping
        /\ HistogramTotal(loc.errors_histogram) = HistogramTotal(loc.events_histogram)
        /\ seen = {Snapshot} =>
              loc.errors_histogram[0] =
                  Cardinality(OccurringTags) - Cardinality(LabelsWithError)

\* On a store nobody writes to: labels with and without errors
C13_FixedStoreCase ==
    /\ ErrorsHistogramDone
    /\ seen = {Snapshot}
    /\ loc.errors_histogram[0] >= 1
    /\ Cardinality(LabelsWithError) >= 2

-----------------------------------------------------------------------------
(* Properties of the document of get_statistics *)

\* get_statistics returned a document of type stats, nothing raised
StatsDone ==
    pc = "gs_return" /\ failed_at = "none" /\ cur.stats_type = "stats"

\* C14: in a document of type stats computed without failure, the tags that
\* are keys of data.tags are the keys of most_common_tags together with the
\* keys of highest_entropy_tags, hence 20 tags at most.
C14_SeriesKeysAreRankedTags ==
    StatsDone =>
        /\ DOMAIN doc.data["tags"] =
               RankedTags(doc.data["most_common_tags"])
               \cup RankedTags(doc.data["highest_entropy_tags"])
        /\ Cardinality(DOMAIN doc.data["tags"]) <= 20

\* The keys of data.tags are ranked tags (the inclusion that does hold)
C14_SeriesKeysWithinRankedTags ==
    StatsDone =>
        DOMAIN doc.data["tags"] \subseteq
            RankedTags(doc.data["most_common_tags"])
            \cup RankedTags(doc.data["highest_entropy_tags"])

\* C15: whatever the statistics type, data holds the key entries only for the
\* timescale year, and a document returned without failure holds entries
\* exactly for the timescale year; retention is a key only for type client.
C15_EntriesAndRetentionKeys ==
    /\ "entries" \in DOMAIN doc.data => cur.timescale = "year"
    /\ "retention" \in DOMAIN doc.data => cur.stats_type = "client"
    /\ (pc = "gs_return" /\ failed_at = "none") =>
           ("entries" \in DOMAIN doc.data <=> cur.timescale = "year")

\* A year document of type client returned without failure, with both keys
C15_Witness ==
    /\ pc = "gs_return" /\ failed_at = "none"
    /\ cur.timescale = "year" /\ cur.stats_type = "client"
    /\ {"entries", "retention"} \subseteq DOMAIN doc.data

\* A document of another timescale returned without failure
C15_WitnessNoEntries ==
    /\ pc = "gs_return" /\ failed_at = "none"
    /\ cur.timescale = "month" /\ cur.stats_type = "session"
    /\ DOMAIN doc.data = {"common", "events_histogram", "errors_histogram"}

\* The keys of data whose value is a dict of a ranking
RankingKeys == {"most_common_errors", "most_common_tags",
                "highest_entropy_tags", "common"}

\* Two data are identical: the same keys with the same values, the items of a
\* ranking compared whatever their order in the dict
SameData(a, b) ==
    /\ DOMAIN a = DOMAIN b
    /\ \A k \in DOMAIN a :
         IF k \in RankingKeys THEN Range(a[k]) = Range(b[k]) ELSE a[k] = b[k]

\* C16: on the same entries and tags and at the same time, the document
\* generated again for a (journal, statistics type, timescale) has the data
\* of the document generated before.
C16_SameDataWhenGeneratedAgain ==
    (pc = "gs_return" /\ failed_at = "none") =>
        \A p \in produced : p.unit = cur => SameData(p.data, doc.data)

\* A unit generated twice with identical data
C16_SameDataCase ==
    /\ pc = "gs_return" /\ failed_at = "none"
    /\ \E p \in produced : /\ p.unit = cur /\ SameData(p.data, doc.data)
                           /\ p.data = doc.data
                           /\ \E k \in DOMAIN doc.data \cap RankingKeys :
                                  doc.data[k] # <<>>

-----------------------------------------------------------------------------
(* Properties of entropy *)

\* C17: for every call entropy(count, total) the ranking makes, with
\* 0 < count < total, entropy(total - count, total) returns the same score;
\* two ranked tags whose counts add up to total have the same score.
C17_EntropySymmetric ==
    /\ \A c \in loc.calls :
         (0 < c[1] /\ c[1] < c[2]) =>
             /\ entropy(c[1], c[2]).raised = "none"
             /\ entropy(c[2] - c[1], c[2]) = entropy(c[1], c[2])
    /\ EntropyDone =>
         \A i, j \in DOMAIN loc.entropy :
             TagOccurrences(loc.entropy[i].tag) + TagOccurrences(loc.entropy[j].tag)
                 = loc.total
             => loc.entropy[i].score = loc.entropy[j].score

\* entropy was called with (1, 4) and with (3, 4), and two ranked tags with
\* these counts have the same positive score
C17_Witness ==
    /\ EntropyDone
    /\ {<<1, 4>>, <<3, 4>>} \subseteq loc.calls
    /\ \E i, j \in DOMAIN loc.entropy :
         /\ TagOccurrences(loc.entropy[i].tag) = 1
         /\ TagOccurrences(loc.entropy[j].tag) = 3
         /\ loc.entropy[i].score = loc.entropy[j].score
         /\ loc.entropy[i].score > 0

-----------------------------------------------------------------------------
(* Properties of the endpoint and of the command *)

\* The values of a list that belong to a set, in the order of the list
Only(values, set) == SelectSeq(values, LAMBDA v : v \in set)

C18_WitnessRejected ==
    /\ pc = "rejected"
    /\ request.stats_version = 4
    /\ response.status_code = 400
    /\ background_tasks = <<>>

\* The journals the command selects: all of them without --journals
SelectedJournals ==
    {j.id : j \in {x \in Journals : driver.journals = {} \/ x.id \in driver.journals}}

\* The number of calls of generate_and_push made for a unit
CallsFor(u) == Cardinality({i \in DOMAIN attempted : attempted[i] = u})

\* C19: when the command statistics_generate_handler ends and nothing raised,
\* it has called generate_and_push exactly once for every selected journal,
\* every timescale and every type among stats, errors, session and client.
C19_EveryCombinationOnce ==
    (driver.kind = "cli" /\ pc = "end" /\ faults = 0) =>
        /\ \A j \in SelectedJournals, ts \in TimeScales, t \in StatsTypes :
             CallsFor(Unit(j, ts, t)) = 1
        /\ Len(attempted) = Cardinality(SelectedJournals)
                            * Cardinality(TimeScales) * Cardinality(StatsTypes)

\* What does hold: every call is made once, and the journal without a search
\* index gets all the combinations
C19_CombinationsOfPlainJournals ==
    (driver.kind = "cli" /\ pc = "end" /\ faults = 0) =>
        /\ \A i, k \in DOMAIN attempted : attempted[i] = attempted[k] => i = k
        /\ \A ts \in TimeScales, t \in StatsTypes : CallsFor(Unit("J1", ts, t)) = 1
        /\ \A ts \in TimeScales : CallsFor(Unit("J2", ts, "stats")) = 1

\* {prefix}/{journal_id}/v5/{timescale}/{stats_type}.json
KeyLayout(journal_id, timescale, stats_type) ==
    <<"prefix", "/", journal_id, "/", "v5", "/", timescale, "/", stats_type, ".json">>

\* C20: the key under which generate_and_push writes the document of a
\* (journal, timescale, type) is the key the endpoint presigned for that
\* timescale and type of the request, of the form
\* {prefix}/{journal_id}/v5/{timescale}/{stats_type}.json.
C20_PresignedKeyIsWrittenKey ==
    [][(pc = "gs_return" /\ request # NoRequest /\ sink' # sink) =>
          \E u \in Range(response.journal_statistics) :
              /\ u.timescale = cur.timescale
              /\ u.stats_type = cur.stats_type
              /\ sink' = sink \cup {u.stats_url.Key}
              /\ u.stats_url.Key =
                     KeyLayout(request.journal_id, cur.timescale, cur.stats_type)]_vars

\* Every URL of the response points to a document the generation has written
C20_Witness ==
    /\ request # NoRequest
    /\ pc = "end"
    /\ Len(response.journal_statistics) = 4
    /\ \A u \in Range(response.journal_statistics) : u.stats_url.Key \in sink

-----------------------------------------------------------------------------
(* Errors of single units and of whole calls *)

InvalidUnits == {u \in Range(attempted) : u.timescale \notin TimeScales}

\* C21: generate_and_push called with a timescale name that is not year,
\* month, week or day fails for that unit only: no statistics are computed
\* for it, nothing is written to the sink for it, and the failure does not
\* reach the caller, whose loop goes on to the units that follow.
C21_InvalidTimescaleFailsAlone ==
    /\ (pc = "gp_finally" /\ cur \in InvalidUnits) =>
           /\ doc = NoDoc /\ loc = NoLoc /\ seen = {} /\ start_date = None
    /\ \A u \in InvalidUnits : ResultKey(u) \notin sink
    /\ (faults = 0 /\ InvalidUnits # {}) =>
           /\ escaped = {}
           /\ pc = "end" => Range(attempted) = Range(PlannedUnits(driver))

\* The call with "decade" and "day" has ended: the day document is stored
C21_Witness ==
    /\ pc = "end"
    /\ faults = 0
    /\ InvalidUnits = {Unit("J1", "decade", "stats")}
    /\ sink = {ResultKey(Unit("J1", "day", "stats"))}

\* The call is for a journal id the table journals does not hold
UnknownJournalCall ==
    driver.kind = "api" /\ driver.journal_id \notin {j.id : j \in Journals}

\* C22: generate_and_push_in_own_process called with a journal id that matches
\* no journal computes no statistics and writes nothing to the sink for any
\* (timescale, type) of the call, and the failure does not leave the call.
C22_UnknownJournalDoesNothing ==
    UnknownJournalCall =>
        /\ attempted = <<>>
        /\ todo = <<>>
        /\ doc = NoDoc
        /\ sink = {}
        /\ escaped = {}
        /\ pc \in {"start", "loop", "end"}

\* A call for journal J0 with four (timescale, type) pairs has ended
C22_Witness ==
    /\ UnknownJournalCall
    /\ Len(driver.timescales) * Len(driver.stats_types) = 4
    /\ pc = "end"

-----------------------------------------------------------------------------
(* The reports poller: initial states and specifications *)

MaxQueue == 3       \* reports in the queue at the start
MaxChunk == 2       \* --chunk-size

\* The queue at the start: reports of the pool, each at most once
QueueContents ==
    {q \in UNION {[1..n -> ReportPool] : n \in 0..MaxQueue} :
        \A i, k \in DOMAIN q : q[i] = q[k] => i = k}

\* start_polling with the commands the CLI accepts, with and without --blocking
InitPoll ==
    /\ InitProcess
    /\ cleanup = NoCleanup
    /\ migration = <<>>
    /\ entries = BaseEntries
    /\ tags = BaseTags
    /\ driver = NoDriver
    /\ request = NoRequest
    /\ pc = "poll"
    /\ reports_queue \in QueueContents
    /\ store0 = reports_queue
    /\ failed_queue = NoCounts
    /\ report_tasks = Unbound
    /\ journal_by_token = {}
    /\ unwritten = <<>>
    /\ committed = NoCounts
    /\ polling \in {Polling(c, n, b) :
                       c \in {"lpop", "lrange"}, n \in 1..MaxChunk, b \in BOOLEAN}

\* The poller with failures of Redis and of the database
SpecPoll == InitPoll /\ [][PollNext]_vars

\* The poller, which keeps running as long as it has a step to take
SpecPollFair == InitPoll /\ [][PollNext]_vars /\ WF_vars(PollNext)

-----------------------------------------------------------------------------
(* Properties of the reports poller *)

\* process_humbug_tasks_queue has returned
PollReturned == pc = "returned"

\* C23: with blocking disabled, process_humbug_tasks_queue processes reports
\* until the end of the queue: it does not return while reports remain in
\* the reports queue.
C23_ReturnsOnEmptyQueue ==
    (PollReturned /\ ~polling.block) => reports_queue = <<>>

\* C24: with blocking disabled and no producer, process_humbug_tasks_queue
\* eventually returns (or is left by an exception), for lpop and for lrange
\* and for any initial content of the queue.
C24_EventuallyReturns ==
    <>(polling.block \/ pc \in {"returned", "crashed"})

\* With lpop, the poller without --blocking comes to its end
C24_LpopEventuallyReturns ==
    <>(polling.block \/ polling.upload_command = "lrange"
       \/ pc \in {"returned", "crashed"})

\* The reports taken off the queue since the command started
TakenOff == {r.id : r \in Range(store0)} \ {r.id : r \in Range(reports_queue)}

\* No chunk is being worked on
BetweenChunks == pc \in {"poll", "sleep", "returned", "crashed"}

\* C25: every report task that upload_report_tasks takes off the reports
\* queue is afterwards either committed to the database as one journal entry
\* or appended to the failed-reports queue; none is dropped without a trace.
C25_TakenOffIsCommittedOrFailed ==
    BetweenChunks =>
        \A id \in TakenOff : committed[id] = 1 \/ failed_queue[id] >= 1

\* The tokens that get_humbug_integrations maps to a journal
KnownTokens == {i.restricted_token_id : i \in get_humbug_integrations(store0)}

\* What holds of the reports taken off whose token has a journal
C25_KnownTokensAreTraced ==
    BetweenChunks =>
        \A r \in Range(store0) :
            (r.id \in TakenOff /\ r.bugout_token \in KnownTokens) =>
                committed[r.id] = 1 \/ failed_queue[r.id] >= 1

\* C29: a report task that write_reports has committed to the database is
\* never appended to the failed-reports queue afterwards, in any iteration of
\* process_humbug_tasks_queue, the ones whose exception handler runs included.
C29_CommittedNeverFailedLater ==
    [][\A id \in ReportIds :
          committed[id] >= 1 => failed_queue'[id] = failed_queue[id]]_vars

-----------------------------------------------------------------------------
(* The cleanup of journals: initial states, specification and properties *)

MaxStored == 4      \* entries of a journal at the start
MaxKept == 3        \* --max-entries
MaxBatch == 3       \* --batch-size

\* n1 entries of J1, three of J2 and n3 of J3; neighbours share created_at
CleanupEntries(n1, n3) ==
    {Entry(i, "J1", Now0 - i \div 2) : i \in 1..n1}
    \cup {Entry(10 + i, "J2", Now0 - i \div 2) : i \in 1..3}
    \cup {Entry(20 + i, "J3", Now0 - i \div 2) : i \in 1..n3}

\* The command "cleanup journals" on a store nobody else writes to
InitCleanup ==
    /\ InitProcess
    /\ IdleHumbug
    /\ driver = NoDriver
    /\ request = NoRequest
    /\ migration = <<>>
    /\ pc = "cleanup_start"
    /\ \E n1 \in 0..MaxStored, n3 \in 0..MaxStored :
         entries = CleanupEntries(n1, n3)
    /\ tags = {TagRow(e.id, <<"os", 1>>, e.created_at) : e \in entries}
    /\ store0 = <<entries, tags>>
    /\ cleanup \in {Cleanup(m, b) : m \in 0..MaxKept, b \in 1..MaxBatch}

SpecCleanup == InitCleanup /\ [][CleanupSteps]_vars

EntriesOf(E, journal_id) == {e \in E : e.journal = journal_id}

-----------------------------------------------------------------------------
(* The migration error_tags: initial states, specification and properties *)

\* An entry with its title, split at " - "
TitledEntry(id, journal, created_at, title) ==
    [id |-> id, journal |-> journal, created_at |-> created_at, title |-> title]

\* Titles "Error - <7>", "Error", "Error - <8>" and "Error - <7> - <9>"
MigrationEntries ==
    {TitledEntry(1, "J1", Now0 - 1, <<0, 7>>),
     TitledEntry(2, "J1", Now0 - 2, <<0>>),
     TitledEntry(3, "J2", Now0 - 3, <<0, 8>>),
     TitledEntry(4, "J1", Now0 - 4, <<0, 7, 9>>)}

\* Entry 3 may have been upgraded before; entry 1 may bear an error tag
MigrationTagPool ==
    {TagRow(1, type_error, Now0 - 1),
     TagRow(2, type_error, Now0 - 2),
     TagRow(3, type_error, Now0 - 3),
     TagRow(4, type_error, Now0 - 4),
     TagRow(1, <<"error", 5>>, Now0 - 1),
     TagRow(1, <<"os", 1>>, Now0 - 1),
     TagRow(3, <<"error", 8>>, Now0 - 3),
     TagRow(3, error_migration_v1, Now0 - 2)}

\* The command "migrate" run up to MaxRuns times on a store nobody else
\* writes to
InitMigration ==
    /\ InitProcess
    /\ IdleHumbug
    /\ driver = NoDriver
    /\ request = NoRequest
    /\ cleanup = NoCleanup
    /\ migration = <<>>
    /\ pc = "migrate"
    /\ entries = MigrationEntries
    /\ tags \in SUBSET MigrationTagPool
    /\ store0 = <<entries, tags>>

SpecMigration == InitMigration /\ [][MigrationSteps]_vars

TagsOf(T, e) == {r.tag : r \in {x \in T : x.entry = e.id}}

\* upgrade and then downgrade have run, both for the same journal argument
UpgradedThenDowngraded ==
    /\ Len(migration) = 2
    /\ migration[1] = Ran("upgrade", migration[1].journal_id, "done")
    /\ migration[2] = Ran("downgrade", migration[1].journal_id, "done")

\* C27: starting from a store in which no entry carries the tag
\* error_migration_v1, running the error_tags upgrade and then its downgrade,
\* with no other write in between, leaves every entry's set of tags exactly
\* as it was before the upgrade.
C27_UpgradeThenDowngrade ==
    (/\ UpgradedThenDowngraded
     /\ \A e \in store0[1] : ~HasTag(store0[2], e, error_migration_v1)) =>
        \A e \in entries : TagsOf(tags, e) = TagsOf(store0[2], e)

\* The upgrade had tags to add, for two entries, and the downgrade has run
C27_Witness ==
    /\ UpgradedThenDowngraded
    /\ \A e \in store0[1] : ~HasTag(store0[2], e, error_migration_v1)
    /\ Cardinality(new_tags(store0[1], store0[2], migration[1].journal_id, now)) = 4
    /\ \E e \in entries : HasTagLike(tags, e, "error")
    /\ tags = store0[2]

-----------------------------------------------------------------------------
(* The arguments of entropy() *)

\* C28: whenever generate_highest_entropy_tags calls entropy(count, total),
\* 0 < count < total holds, so the call never divides by zero and never takes
\* the logarithm of a non-positive number; the number of occurrences of a tag
\* never exceeds the number of in-scope entries.
C28_EntropyArguments ==
    \A call \in loc.calls : 0 < call[1] /\ call[1] < call[2]

\* On a store nobody writes to, entropy() was called, with arguments inside
\* its domain
C28_FixedStoreCase ==
    /\ pc = "most_used"
    /\ loc.calls # {}
    /\ \A call \in loc.calls : 0 < call[1] /\ call[1] < call[2]

-----------------------------------------------------------------------------
(* The endpoint and its background task while the clock advances *)

MaxTicks == 2       \* hours the clock advances per behaviour

\* datetime.utcnow() has advanced by an hour
Tick ==
    /\ now < Now0 + MaxTicks
    /\ pc \notin {"end", "rejected"}
    /\ now' = now + 1
    /\ UNCHANGED <<stats_vars, humbug_vars, maintenance_vars, entries, tags, pc,
                   faults>>

\* Request bodies, one of them for the year
ClockRequests ==
    Requests \cup {UpdateStatsRequest("J1", 5, <<"stats">>, <<"year">>, TRUE)}

InitClock ==
    /\ InitProcess
    /\ IdleHumbug
    /\ IdleMaintenance
    /\ entries = BaseEntries
    /\ tags = BaseTags
    /\ driver = NoDriver
    /\ request \in ClockRequests
    /\ pc = "request"

\* A request, its response and its background task, with time passing
SpecClock == InitClock /\ [][StatsUpdate \/ Steps \/ Tick]_vars

\* C30: every document generated as a result of a stats_update request has a
\* created_at timestamp that is not earlier than the modified_since value
\* returned in the response to that request.
C30_CreatedAtNotBeforeModifiedSince ==
    (request # NoRequest /\ doc # NoDoc) =>
        /\ response.status_code = 200
        /\ doc.created_at >= response.modified_since

\* The background task built a document an hour or more after the response
C30_Witness ==
    /\ request # NoRequest
    /\ pc = "gs_return"
    /\ doc.created_at > response.modified_since
    /\ doc.data # EmptyData

====
